---- MODULE Spec2Model ----
(***************************************************************************)
(* A model of the Cachly cache engine (src/src/Cachly.ts) and of its       *)
(* circuit breaker (src/src/utils/CircuitBreaker.ts) and compression codec *)
(* (src/src/utils/compression.ts).                                         *)
(*                                                                         *)
(* Time is the value Date.now() returns.  A handler that contains no await *)
(* that yields to other work is one action; the asynchronous operations    *)
(* (getOrCompute, getOrComputeWithStale, the background refresh) are split *)
(* at their suspension points.                                             *)
(***************************************************************************)
EXTENDS Integers, Sequences, FiniteSets, TLC

VARIABLES now, config, items, order, tags, groups, cacheStats, pc, last,
          cb, calls, loads, linked

vars == <<now, config, items, order, tags, groups, cacheStats, pc, last,
          cb, calls, loads, linked>>

(***************************************************************************)
(* Bounds of the exploration.                                              *)
(***************************************************************************)
MaxTime == 2
MaxAccesses == 1
MaxEvictions == 1
MaxCalls == 2
MaxComputes == 3

Keys == {"a", "b", "c"}
Tags == {"users", "active"}
Undef == -1
NoKey == "<null>"
EmptyMap == [k \in {} |-> 0]

(***************************************************************************)
(* Values and their stored representations.  A stored value is the value   *)
(* itself ("raw"), a Buffer holding its JSON text ("json") or a Buffer     *)
(* holding the gzip of its JSON text ("gzip").  The sizes are those of     *)
(* 'small', 'x'.repeat(22) and 'x'.repeat(200): JSON.stringify adds the    *)
(* two quotes, gzip (level 6) produces 27, 24 and 25 bytes.                *)
(***************************************************************************)
Values == {"small", "x22", "x200"}

Undefined == [enc |-> "undefined", v |-> ""]
\* the value "undefined" is JavaScript's undefined
Raw(v) == IF v = "undefined" THEN Undefined ELSE [enc |-> "raw", v |-> v]
Json(v) == [enc |-> "json", v |-> v]
Gz(v) == [enc |-> "gzip", v |-> v]
TypeError == [enc |-> "error", v |-> "TypeError"]

JsonSize(v) ==
  CASE v = "small" -> 7 [] v = "x22" -> 24 [] v = "x50" -> 52 [] OTHER -> 202
GzipSize(v) == CASE v = "small" -> 27 [] v = "x22" -> 24 [] OTHER -> 25
\* the length of JSON.stringify(Buffer.from(JSON.stringify(v)))
BufferJsonSize(v) ==
  CASE v = "small" -> 51 [] v = "x22" -> 120 [] v = "x50" -> 232
    [] OTHER -> 832

\* CompressionUtil.compress with algorithm 'gzip'
Compress(v, compression) ==
  LET originalSize == JsonSize(v) IN
  IF originalSize < compression.threshold
  THEN [data |-> Json(v), originalSize |-> originalSize,
        compressedSize |-> originalSize]
  ELSE [data |-> Gz(v), originalSize |-> originalSize,
        compressedSize |-> GzipSize(v)]

\* CompressionUtil.decompress with algorithm 'gzip': gunzip, then JSON.parse;
\* gunzip of a Buffer that is not a gzip stream throws.
Decompress(data) ==
  IF data.enc = "gzip" THEN [ok |-> TRUE, value |-> Raw(data.v)]
  ELSE [ok |-> FALSE, value |-> Undefined]

(***************************************************************************)
(* The store.  S is a record [items, order, tags, cacheStats]: items maps  *)
(* the resident keys to their CacheItem, order is the iteration order of   *)
(* the Map (insertion order), tags maps the registered tags to their keys. *)
(***************************************************************************)
Size(S) == Cardinality(DOMAIN S.items)

Remove(seq, k) == SelectSeq(seq, LAMBDA x : x # k)

\* this.items.set(key, item): an existing key keeps its place in the order
MapSet(S, key, item) ==
  [S EXCEPT !.items = [k \in (DOMAIN S.items) \cup {key} |->
                         IF k = key THEN item ELSE S.items[k]],
            !.order = IF key \in DOMAIN S.items THEN S.order
                      ELSE Append(S.order, key)]

\* this.items.delete(key)
MapDelete(S, key) ==
  [S EXCEPT !.items = [k \in (DOMAIN S.items) \ {key} |-> S.items[k]],
            !.order = Remove(S.order, key)]

\* a variant of isExpired that counts the instant expiresAt itself as expired
IsExpiredAtBoundary(item, t) == item.expiresAt # Undef /\ t >= item.expiresAt

IsExpired(item, t) == item.expiresAt # Undef /\ t > item.expiresAt

IsStale(item, t) == item.staleAt # Undef /\ t > item.staleAt

UpdateDependencies(S, key, dependencies) ==
  [S EXCEPT !.items = [k \in DOMAIN S.items |->
       IF k \in dependencies
       THEN [S.items[k] EXCEPT !.dependents = @ \cup {key}]
       ELSE S.items[k]]]

RemoveDependencies(S, key, dependencies) ==
  [S EXCEPT !.items = [k \in DOMAIN S.items |->
       IF k \in dependencies
       THEN [S.items[k] EXCEPT !.dependents = @ \ {key}]
       ELSE S.items[k]]]

UpdateTags(S, key, tgs) ==
  [S EXCEPT !.tags = [t \in (DOMAIN S.tags) \cup tgs |->
       IF t \in tgs
       THEN (IF t \in DOMAIN S.tags THEN S.tags[t] ELSE {}) \cup {key}
       ELSE S.tags[t]]]

RemoveTags(S, key, tgs) ==
  LET hit == tgs \cap DOMAIN S.tags
      emptied == {t \in hit : S.tags[t] \ {key} = {}}
  IN [S EXCEPT !.tags = [t \in (DOMAIN S.tags) \ emptied |->
       IF t \in hit THEN S.tags[t] \ {key} ELSE S.tags[t]]]


(***************************************************************************)
(* delete(key): unlink from the dependencies and from the tag index, then  *)
(* delete every key of a snapshot of the dependents, then drop the entry.  *)
(* The snapshot is a JavaScript Set; the keys left resident by the cascade *)
(* do not depend on the order in which it is walked.                       *)
(***************************************************************************)
RECURSIVE Delete(_, _), DeleteEach(_, _)

\* a variant of invalidateDependents that drops the direct dependents only
InvalidateDependentsShallow(S, key) ==
  IF key \notin DOMAIN S.items THEN S
  ELSE [S EXCEPT !.items = [k \in (DOMAIN S.items) \ S.items[key].dependents
                              |-> S.items[k]],
                 !.order = SelectSeq(S.order,
                             LAMBDA x : x \notin S.items[key].dependents)]

InvalidateDependents(S, key) ==
  IF key \notin DOMAIN S.items THEN S
  ELSE DeleteEach(S, S.items[key].dependents)

Delete(S, key) ==
  IF key \notin DOMAIN S.items THEN S
  ELSE LET item == S.items[key]
           S1 == RemoveDependencies(S, key, item.dependsOn)
           S2 == RemoveTags(S1, key, item.tags)
           S3 == InvalidateDependents(S2, key)
       IN MapDelete(S3, key)

\* for (const key of keys) this.delete(key)
DeleteEach(S, keys) ==
  IF keys = {} THEN S
  ELSE LET k == CHOOSE x \in keys : TRUE
       IN DeleteEach(Delete(S, k), keys \ {k})

(***************************************************************************)
(* Eviction.  The policies remove the entry with items.delete, not with    *)
(* delete(key).                                                            *)
(***************************************************************************)
RECURSIVE ScanLRU(_, _, _, _), ScanLFU(_, _, _, _), EvictIfNeeded(_, _, _)

ScanLRU(S, i, oldestKey, oldestTime) ==
  IF i > Len(S.order) THEN oldestKey
  ELSE LET item == S.items[S.order[i]] IN
       IF item.lastAccessed < oldestTime
       THEN ScanLRU(S, i + 1, S.order[i], item.lastAccessed)
       ELSE ScanLRU(S, i + 1, oldestKey, oldestTime)

\* `if (oldestKey)`: null and the empty string are both falsy
EvictLRU(S, t) ==
  LET oldestKey == ScanLRU(S, 1, NoKey, t) IN
  IF oldestKey # NoKey /\ oldestKey # ""
  THEN [MapDelete(S, oldestKey) EXCEPT !.cacheStats.evictions = @ + 1]
  ELSE S

\* leastFrequentCount starts at Infinity: the first entry always replaces it
ScanLFU(S, i, leastFrequentKey, leastFrequentCount) ==
  IF i > Len(S.order) THEN leastFrequentKey
  ELSE LET item == S.items[S.order[i]] IN
       IF leastFrequentKey = NoKey \/ item.accessCount < leastFrequentCount
       THEN ScanLFU(S, i + 1, S.order[i], item.accessCount)
       ELSE ScanLFU(S, i + 1, leastFrequentKey, leastFrequentCount)

EvictLFU(S) ==
  LET leastFrequentKey == ScanLFU(S, 1, NoKey, 0) IN
  IF leastFrequentKey # NoKey /\ leastFrequentKey # ""
  THEN [MapDelete(S, leastFrequentKey) EXCEPT !.cacheStats.evictions = @ + 1]
  ELSE S

\* `item.expiresAt && now > item.expiresAt` for every entry
EvictTTL(S, t) ==
  LET gone == {k \in DOMAIN S.items :
                 S.items[k].expiresAt # Undef /\ S.items[k].expiresAt # 0
                 /\ t > S.items[k].expiresAt}
  IN [S EXCEPT !.items = [k \in (DOMAIN S.items) \ gone |-> S.items[k]],
               !.order = SelectSeq(S.order, LAMBDA x : x \notin gone),
               !.cacheStats.evictions = @ + Cardinality(gone)]

Evict(S, t, cfg) ==
  CASE cfg.evictionPolicy = "lru" -> EvictLRU(S, t)
    [] cfg.evictionPolicy = "ttl" -> EvictTTL(S, t)
    [] cfg.evictionPolicy = "lfu" -> EvictLFU(S)
    [] OTHER -> S

(***************************************************************************)
(* while (maxItems && size > maxItems) evict().  The loop runs at the      *)
(* instant t for as long as evict() removes something.  When it removes    *)
(* nothing the loop keeps spinning: the result says so (spinning), and the *)
(* loop is resumed once Date.now() has moved (EvictSpin below).            *)
(***************************************************************************)
\* a variant of the loop that stops one entry above maxItems
RECURSIVE EvictIfNeededOffByOne(_, _, _)
EvictIfNeededOffByOne(S, t, cfg) ==
  IF cfg.maxItems # 0 /\ Size(S) > cfg.maxItems + 1
  THEN LET S2 == Evict(S, t, cfg) IN
       IF Size(S2) = Size(S) THEN [S |-> S, spinning |-> TRUE]
       ELSE EvictIfNeededOffByOne(S2, t, cfg)
  ELSE [S |-> S, spinning |-> FALSE]

EvictIfNeeded(S, t, cfg) ==
  IF cfg.maxItems # 0 /\ Size(S) > cfg.maxItems
  THEN LET S2 == Evict(S, t, cfg) IN
       IF Size(S2) = Size(S) THEN [S |-> S, spinning |-> TRUE]
       ELSE EvictIfNeeded(S2, t, cfg)
  ELSE [S |-> S, spinning |-> FALSE]

(***************************************************************************)
(* set(key, value, options) up to the call of evictIfNeeded.  An option    *)
(* that is not given is Undef.                                             *)
(***************************************************************************)
Options(ttl, staleTtl, dependsOn, tgs) ==
  [ttl |-> ttl, staleTtl |-> staleTtl, dependsOn |-> dependsOn, tags |-> tgs]

NoOptions == Options(Undef, Undef, {}, {})

\* a variant of set that carries the old item's dependents over to the new one
SetInsertKeepsDependents(S, key, v, options, t, cfg) ==
  LET ttl == IF options.ttl # Undef THEN options.ttl ELSE cfg.defaultTtl
      expiresAt == IF ttl # 0 /\ ttl > 0 THEN t + ttl ELSE Undef
      staleAt == IF options.staleTtl # Undef /\ options.staleTtl # 0
                 THEN t + options.staleTtl ELSE Undef
      r == Compress(v, cfg.compression)
      item == [value |-> IF cfg.compression.enabled THEN r.data ELSE Raw(v),
               expiresAt |-> expiresAt,
               staleAt |-> staleAt,
               dependsOn |-> options.dependsOn,
               dependents |-> IF key \in DOMAIN S.items
                              THEN S.items[key].dependents ELSE {},
               tags |-> options.tags,
               accessCount |-> 0,
               lastAccessed |-> t,
               compressed |-> cfg.compression.enabled
                              /\ r.originalSize # r.compressedSize]
      S1 == MapSet(S, key, item)
      S2 == UpdateDependencies(S1, key, item.dependsOn)
  IN UpdateTags(S2, key, item.tags)

SetInsert(S, key, v, options, t, cfg) ==
  LET ttl == IF options.ttl # Undef THEN options.ttl ELSE cfg.defaultTtl
      expiresAt == IF ttl # 0 /\ ttl > 0 THEN t + ttl ELSE Undef
      staleAt == IF options.staleTtl # Undef /\ options.staleTtl # 0
                 THEN t + options.staleTtl ELSE Undef
      r == Compress(v, cfg.compression)
      item == [value |-> IF cfg.compression.enabled THEN r.data ELSE Raw(v),
               expiresAt |-> expiresAt,
               staleAt |-> staleAt,
               dependsOn |-> options.dependsOn,
               dependents |-> {},
               tags |-> options.tags,
               accessCount |-> 0,
               lastAccessed |-> t,
               compressed |-> cfg.compression.enabled
                              /\ r.originalSize # r.compressedSize]
      S1 == MapSet(S, key, item)
      S2 == UpdateDependencies(S1, key, item.dependsOn)
  IN UpdateTags(S2, key, item.tags)


(***************************************************************************)
(* Configuration (the constructor's defaults merged with the caller's).    *)
(***************************************************************************)
NoCompression == [enabled |-> FALSE, threshold |-> 1024]
NoCircuitBreaker == [enabled |-> FALSE, failureThreshold |-> 5,
                     recoveryTimeout |-> 30000, fallback |-> FALSE]

Config(maxItems, evictionPolicy, defaultTtl, compression, circuitBreaker, swr) ==
  [maxItems |-> maxItems, maxMemory |-> 0, evictionPolicy |-> evictionPolicy,
   defaultTtl |-> defaultTtl, staleWhileRevalidate |-> swr,
   compression |-> compression, circuitBreaker |-> circuitBreaker]

ClosedBreaker == [state |-> "closed", failureCount |-> 0,
                  lastFailureTime |-> 0, nextAttemptTime |-> 0]

\* the getOrCompute / getOrComputeWithStale calls in flight; loads counts the
\* invocations of the loader
CallIds == 1..MaxCalls
NoCall == [op |-> "none", key |-> NoKey, phase |-> "none", value |-> "",
           options |-> NoOptions, deps |-> << >>]

NoLast == [op |-> "none", key |-> NoKey, arg |-> "", ret |-> Undefined]

\* the state a new Cachly(cfg) is in
InitWith(cfgs) ==
  /\ now = 0
  /\ config \in cfgs
  /\ items = EmptyMap
  /\ order = << >>
  /\ tags = EmptyMap
  /\ groups = EmptyMap
  /\ cacheStats = [hits |-> 0, misses |-> 0, evictions |-> 0,
                   totalAccesses |-> 0]
  /\ pc = "idle"
  /\ last = NoLast
  /\ cb = ClosedBreaker
  /\ calls = [c \in CallIds |-> NoCall]
  /\ loads = 0
  /\ linked = {}

Store == [items |-> items, order |-> order, tags |-> tags,
          cacheStats |-> cacheStats]

(***************************************************************************)
(* linked is a history variable, not state of the program: <<c, p>> is in  *)
(* it when c was written by a set that named p in dependsOn while p was    *)
(* resident, and neither c nor p has been written again or has left the    *)
(* store since.                                                            *)
(***************************************************************************)
Surviving(links, resident) ==
  {e \in links : e[1] \in resident /\ e[2] \in resident}

LinkedAfterSet(key, dependsOn, residentAtSet, residentAfter) ==
  Surviving({e \in linked : e[1] # key /\ e[2] # key}
              \cup {<<key, p>> : p \in dependsOn \cap residentAtSet},
            residentAfter)

RECURSIVE LinkedBelow(_, _)
\* the links that lead, directly or through other links, to a key of roots
LinkedBelow(roots, links) ==
  LET next == {e \in links : e[2] \in roots} IN
  IF {e[1] : e \in next} \subseteq roots THEN next
  ELSE LinkedBelow(roots \cup {e[1] : e \in next}, links)

Install(S) ==
  /\ items' = S.items
  /\ order' = S.order
  /\ tags' = S.tags
  /\ cacheStats' = S.cacheStats

(***************************************************************************)
(* The synchronous operations.  pc = "evictIfNeeded" while a set is inside *)
(* its eviction loop; nothing else runs until the loop ends.               *)
(***************************************************************************)
Tick ==
  /\ pc = "idle"
  /\ now < MaxTime
  /\ now' = now + 1
  /\ UNCHANGED <<config, items, order, tags, groups, cacheStats, pc, last,
                 cb, calls, loads, linked>>

\* updateStats (estimateMemoryUsage) throws a TypeError on an entry whose
\* value is undefined: JSON.stringify(undefined).length
UpdateStatsThrows(S) ==
  \E k \in DOMAIN S.items :
    ~S.items[k].compressed /\ S.items[k].value = Undefined

\* set rejects, after the insertion and before evictIfNeeded
SetThrows(key, v, options) ==
  UpdateStatsThrows(SetInsert(Store, key, v, options, now, config))

SetOp(key, v, options) ==
  /\ pc = "idle"
  /\ cacheStats.evictions < MaxEvictions
  /\ LET S1 == SetInsert(Store, key, v, options, now, config)
         r == IF UpdateStatsThrows(S1) THEN [S |-> S1, spinning |-> FALSE]
              ELSE EvictIfNeeded(S1, now, config)
     IN /\ Install(r.S)
        /\ pc' = IF r.spinning THEN "evictIfNeeded" ELSE "idle"
        /\ linked' = LinkedAfterSet(key, options.dependsOn, DOMAIN S1.items,
                                    DOMAIN r.S.items)
  /\ last' = [op |-> "set", key |-> key, arg |-> v,
              ret |-> IF SetThrows(key, v, options) THEN TypeError
                      ELSE Undefined]
  /\ UNCHANGED <<now, config, groups, cb, calls, loads>>

\* the eviction loop of a set that removed nothing, resumed one tick later
EvictSpin ==
  /\ pc = "evictIfNeeded"
  /\ now < MaxTime
  /\ now' = now + 1
  /\ LET r == EvictIfNeeded(Store, now + 1, config)
     IN /\ Install(r.S)
        /\ pc' = IF r.spinning THEN "evictIfNeeded" ELSE "idle"
        /\ linked' = Surviving(linked, DOMAIN r.S.items)
  /\ UNCHANGED <<config, groups, last, cb, calls, loads>>

\* a variant of get that reports an expired entry absent and leaves it in
\* the store
GetResultExpiredKept(S, key, t, cfg) ==
  IF key \notin DOMAIN S.items \/ IsExpired(S.items[key], t)
  THEN [S |-> [S EXCEPT !.cacheStats.misses = @ + 1,
                        !.cacheStats.totalAccesses = @ + 1],
        ret |-> Undefined]
  ELSE LET item == S.items[key]
           S1 == [S EXCEPT !.items[key].accessCount = @ + 1,
                           !.items[key].lastAccessed = t,
                           !.cacheStats.hits = @ + 1,
                           !.cacheStats.totalAccesses = @ + 1]
       IN [S |-> S1,
           ret |-> IF item.compressed /\ cfg.compression.enabled
                   THEN Decompress(item.value).value
                   ELSE item.value]

GetResultExpiredUncounted(S, key, t, cfg) ==
  IF key \notin DOMAIN S.items
  THEN [S |-> [S EXCEPT !.cacheStats.misses = @ + 1,
                        !.cacheStats.totalAccesses = @ + 1],
        ret |-> Undefined]
  ELSE IF IsExpired(S.items[key], t)
  THEN [S |-> [Delete(S, key) EXCEPT !.cacheStats.misses = @ + 1],
        ret |-> Undefined]
  ELSE LET item == S.items[key]
           S1 == [S EXCEPT !.items[key].accessCount = @ + 1,
                           !.items[key].lastAccessed = t,
                           !.cacheStats.hits = @ + 1,
                           !.cacheStats.totalAccesses = @ + 1]
       IN [S |-> S1,
           ret |-> IF item.compressed /\ cfg.compression.enabled
                   THEN Decompress(item.value).value
                   ELSE item.value]

\* the result of get(key) and the store it leaves
GetResult(S, key, t, cfg) ==
  IF key \notin DOMAIN S.items
  THEN [S |-> [S EXCEPT !.cacheStats.misses = @ + 1,
                        !.cacheStats.totalAccesses = @ + 1],
        ret |-> Undefined]
  ELSE IF IsExpired(S.items[key], t)
  THEN [S |-> [Delete(S, key) EXCEPT !.cacheStats.misses = @ + 1,
                                     !.cacheStats.totalAccesses = @ + 1],
        ret |-> Undefined]
  ELSE LET item == S.items[key]
           S1 == [S EXCEPT !.items[key].accessCount = @ + 1,
                           !.items[key].lastAccessed = t,
                           !.cacheStats.hits = @ + 1,
                           !.cacheStats.totalAccesses = @ + 1]
       IN [S |-> S1,
           ret |-> IF item.compressed /\ cfg.compression.enabled
                   THEN Decompress(item.value).value
                   ELSE item.value]

Get(key) ==
  /\ pc = "idle"
  /\ cacheStats.totalAccesses < MaxAccesses
  /\ LET r == GetResult(Store, key, now, config)
     IN /\ Install(r.S)
        /\ last' = [op |-> "get", key |-> key, arg |-> "", ret |-> r.ret]
        /\ linked' = Surviving(linked, DOMAIN r.S.items)
  /\ UNCHANGED <<now, config, groups, pc, cb, calls, loads>>

\* a variant of has that reads through get and counts the access
HasThroughGet(key) ==
  /\ pc = "idle"
  /\ LET r == GetResult(Store, key, now, config)
     IN /\ Install(r.S)
        /\ last' = [op |-> "has", key |-> key, arg |-> "",
                    ret |-> r.ret # Undefined]
        /\ linked' = Surviving(linked, DOMAIN r.S.items)
  /\ UNCHANGED <<now, config, groups, pc, cb, calls, loads>>

Has(key) ==
  /\ pc = "idle"
  /\ last' = [op |-> "has", key |-> key, arg |-> "",
              ret |-> key \in DOMAIN items /\ ~IsExpired(items[key], now)]
  /\ UNCHANGED <<now, config, items, order, tags, groups, cacheStats, pc,
                 cb, calls, loads, linked>>

\* last.arg records the links below the key when delete was called
DeleteOp(key) ==
  /\ pc = "idle"
  /\ LET S1 == Delete(Store, key)
     IN /\ Install(S1)
        /\ linked' = Surviving(linked, DOMAIN S1.items)
  /\ last' = [op |-> "delete", key |-> key,
              arg |-> IF key \in DOMAIN items THEN LinkedBelow({key}, linked)
                      ELSE {},
              ret |-> Undefined]
  /\ UNCHANGED <<now, config, groups, pc, cb, calls, loads>>

\* clear() empties the items map only
Clear ==
  /\ pc = "idle"
  /\ items' = EmptyMap
  /\ order' = << >>
  /\ linked' = {}
  /\ last' = [op |-> "clear", key |-> NoKey, arg |-> "", ret |-> Undefined]
  /\ UNCHANGED <<now, config, tags, groups, cacheStats, pc, cb, calls, loads>>

\* the keys invalidateByTag(tag) returns and the store it leaves
InvalidateByTagResult(S, tag) ==
  IF tag \notin DOMAIN S.tags THEN [S |-> S, ret |-> {}]
  ELSE LET affectedKeys == S.tags[tag]
           S1 == DeleteEach(S, affectedKeys)
       IN [S |-> [S1 EXCEPT !.tags = [t \in (DOMAIN S1.tags) \ {tag} |->
                                        S1.tags[t]]],
           ret |-> affectedKeys]

InvalidateByTag(tag) ==
  /\ pc = "idle"
  /\ LET r == InvalidateByTagResult(Store, tag)
     IN /\ Install(r.S)
        /\ last' = [op |-> "invalidateByTag", key |-> tag, arg |-> "",
                    ret |-> r.ret]
        /\ linked' = Surviving(linked, DOMAIN r.S.items)
  /\ UNCHANGED <<now, config, groups, pc, cb, calls, loads>>


\* invalidateByTags(tags): invalidateByTag for each tag of the list in turn
RECURSIVE InvalidateByTagsResult(_, _, _)
InvalidateByTagsResult(S, tagList, results) ==
  IF tagList = << >> THEN [S |-> S, ret |-> results]
  ELSE LET r == InvalidateByTagResult(S, Head(tagList))
       IN InvalidateByTagsResult(r.S, Tail(tagList),
            [t \in (DOMAIN results) \cup {Head(tagList)} |->
               IF t = Head(tagList) THEN r.ret ELSE results[t]])

InvalidateByTags(tagList) ==
  /\ pc = "idle"
  /\ LET r == InvalidateByTagsResult(Store, tagList, EmptyMap)
     IN /\ Install(r.S)
        /\ last' = [op |-> "invalidateByTags", key |-> NoKey, arg |-> tagList,
                    ret |-> r.ret]
        /\ linked' = Surviving(linked, DOMAIN r.S.items)
  /\ UNCHANGED <<now, config, groups, pc, cb, calls, loads>>


(***************************************************************************)
(* Spec: capacity, eviction and expiry.  Every eviction policy with        *)
(* maxItems 1 and 2, and maxItems 0 (no limit: the policy is never         *)
(* consulted); entries with and without a ttl.                             *)
(***************************************************************************)
Policies == {"lru", "lfu", "ttl", "manual"}

StoreConfigs ==
  {Config(m, p, 0, NoCompression, NoCircuitBreaker, FALSE) :
     m \in 1..2, p \in Policies}
  \cup {Config(0, "lru", 0, NoCompression, NoCircuitBreaker, FALSE)}

Init == InitWith(StoreConfigs)

Set ==
  \E key \in Keys, ttl \in {Undef, 1} :
    SetOp(key, "small", Options(ttl, Undef, {}, {}))

GetAny == \E key \in Keys : Get(key)

DeleteAny == \E key \in Keys : DeleteOp(key)

Next ==
  \/ Tick
  \/ Set
  \/ EvictSpin
  \/ GetAny
  \/ DeleteAny

Spec == Init /\ [][Next]_vars


(***************************************************************************)
(* C1.  Capacity bound as claimed: under lru, lfu and ttl, for every       *)
(* configured maxItems, when a set has returned the number of resident     *)
(* entries is at most maxItems.  (Refuted by maxItems = 0, which the guard *)
(* `this.config.maxItems &&` treats as "no limit".)                        *)
(***************************************************************************)
SetReturned == pc = "idle" /\ last.op = "set"

NonManual == config.evictionPolicy \in {"lru", "lfu", "ttl"}

C1_CapacityBoundAnyMaxItems ==
  (SetReturned /\ NonManual) => Cardinality(DOMAIN items) <= config.maxItems

\* C1 as amended: under lru, lfu and ttl and for every maxItems >= 1, when a
\* set has returned the number of resident entries is at most maxItems.
C1_CapacityBound ==
  (SetReturned /\ NonManual /\ config.maxItems >= 1)
    => Cardinality(DOMAIN items) <= config.maxItems

\* a set that had to evict has returned with the store exactly full
C1_Witness ==
  /\ SetReturned /\ NonManual /\ config.maxItems >= 1
  /\ cacheStats.evictions > 0
  /\ Cardinality(DOMAIN items) = config.maxItems

(***************************************************************************)
(* C4.  TTL as claimed: a set with ttl > 0 at time t0 gives the entry      *)
(* expiresAt = t0 + ttl; get on that entry returns the value at every      *)
(* now < expiresAt and absent at every now >= expiresAt; an entry written  *)
(* with no ttl is never treated as expired.  (Refuted at now = expiresAt:  *)
(* isExpired is `Date.now() > expiresAt`.)                                 *)
(***************************************************************************)
SetGivesExpiry ==
  \A key \in Keys, ttl \in {Undef, 1} :
    (/\ last'.op = "set" /\ last'.key = key /\ key \in DOMAIN items'
     /\ SetOp(key, "small", Options(ttl, Undef, {}, {})))
      => items'[key].expiresAt = (IF ttl > 0 THEN now + ttl ELSE Undef)

GetHonoursExpiry(expiredAt(_, _)) ==
  \A key \in Keys :
    (/\ last'.op = "get" /\ last'.key = key /\ key \in DOMAIN items
     /\ Get(key))
      => IF items[key].expiresAt # Undef /\ expiredAt(now, items[key].expiresAt)
         THEN last'.ret = Undefined /\ key \notin DOMAIN items'
         ELSE last'.ret = items[key].value /\ key \in DOMAIN items'

AtOrPast(t, expiresAt) == t >= expiresAt

Past(t, expiresAt) == t > expiresAt

C4_TtlExpiresAtBoundary ==
  [][SetGivesExpiry /\ GetHonoursExpiry(AtOrPast)]_vars

\* C4 as amended: get returns the value at every now <= expiresAt and absent
\* at every now > expiresAt; the rest as claimed.
C4_TtlExpiresPastBoundary ==
  [][SetGivesExpiry /\ GetHonoursExpiry(Past)]_vars

\* a get at the instant expiresAt itself has returned the value
C4_Witness ==
  /\ last.op = "get" /\ last.key \in DOMAIN items
  /\ items[last.key].expiresAt = now
  /\ items[last.key].lastAccessed = now
  /\ items[last.key].accessCount > 0
  /\ last.ret = Raw("small")


(***************************************************************************)
(* SpecDeps: the dependency graph.  Entries name any set of keys in        *)
(* dependsOn: nothing, "a", "b" or both (chains a <- b <- c, a key with    *)
(* two dependencies, a key naming itself, two keys naming each other); the *)
(* store is unlimited or holds two entries under lfu, so that entries also *)
(* leave by eviction.                                                      *)
(***************************************************************************)
DepSets == SUBSET {"a", "b"}

DepsConfigs ==
  {Config(0, "lru", 0, NoCompression, NoCircuitBreaker, FALSE),
   Config(2, "lfu", 0, NoCompression, NoCircuitBreaker, FALSE)}

InitDeps == InitWith(DepsConfigs)

SetDeps ==
  \E key \in Keys, dependsOn \in DepSets :
    SetOp(key, "small", Options(Undef, Undef, dependsOn, {}))

NextDeps ==
  \/ SetDeps
  \/ GetAny
  \/ DeleteAny

SpecDeps == InitDeps /\ [][NextDeps]_vars

(***************************************************************************)
(* C2.  Cascading invalidation: when delete(parent) has returned, no key   *)
(* that was linked to parent, directly or through a chain of links, is     *)
(* resident, and neither is parent.  (A link child -> parent exists when   *)
(* child was set naming parent in dependsOn while parent was resident and  *)
(* neither has been set again, evicted or removed since; a child linked to *)
(* several keys goes when any one of them is deleted.)                     *)
(***************************************************************************)
C2_CascadingInvalidation ==
  (pc = "idle" /\ last.op = "delete")
    => /\ last.key \notin DOMAIN items
       /\ \A e \in last.arg : e[1] \notin DOMAIN items

\* delete("a") has returned for the chain a <- b <- c
C2_Witness ==
  /\ pc = "idle" /\ last.op = "delete" /\ last.key = "a"
  /\ last.arg = {<<"b", "a">>, <<"c", "b">>}
  /\ DOMAIN items = {}


(***************************************************************************)
(* SpecTags: the tag index.  Entries carry any set of the two tags, "c"    *)
(* may depend on "a"; the store is unlimited or holds two entries under    *)
(* lfu.                                                                    *)
(***************************************************************************)
TagsDepSets(key) == IF key = "c" THEN SUBSET {"a"} ELSE {{}}

TagLists == {<<t>> : t \in Tags}
            \cup {p \in Tags \X Tags : p[1] # p[2]}

TagsConfigs ==
  {Config(0, "lru", 0, NoCompression, NoCircuitBreaker, FALSE),
   Config(2, "lfu", 0, NoCompression, NoCircuitBreaker, FALSE)}

InitTags == InitWith(TagsConfigs)

SetTags ==
  \E key \in Keys, tgs \in SUBSET Tags :
    \E dependsOn \in TagsDepSets(key) :
      SetOp(key, "small", Options(Undef, Undef, dependsOn, tgs))

InvalidateByTagAny == \E tag \in Tags : InvalidateByTag(tag)

InvalidateByTagsAny == \E tagList \in TagLists : InvalidateByTags(tagList)

NextTags ==
  \/ SetTags
  \/ DeleteAny
  \/ Clear
  \/ InvalidateByTagAny
  \/ InvalidateByTagsAny

SpecTags == InitTags /\ [][NextTags]_vars

\* the resident keys that carry the tag
Carriers(tag) == {k \in DOMAIN items : tag \in items[k].tags}

RECURSIVE DependingOn(_)
\* the resident keys whose dependsOn leads, in any number of steps, to a key
\* of the set
DependingOn(keys) ==
  LET more == {k \in DOMAIN items : items[k].dependsOn \cap keys # {}} IN
  IF more \subseteq keys THEN keys ELSE DependingOn(keys \cup more)

(***************************************************************************)
(* C9.  invalidateByTag(t) returns exactly the resident keys that carry t  *)
(* and removes them (each returned key was resident before the call and is *)
(* absent after it); t is absent from the tag index afterwards; every key  *)
(* that neither carries t nor depends, directly or transitively, on a      *)
(* removed key stays resident with its value unchanged.                    *)
(***************************************************************************)
C9_InvalidateByTagExact ==
  [][\A tag \in Tags :
       (/\ last'.op = "invalidateByTag" /\ last'.key = tag
        /\ InvalidateByTag(tag))
         => /\ last'.ret = Carriers(tag)
            /\ \A k \in last'.ret : k \in DOMAIN items /\ k \notin DOMAIN items'
            /\ tag \notin DOMAIN tags'
            /\ \A k \in (DOMAIN items) \ DependingOn(Carriers(tag)) :
                 k \in DOMAIN items' /\ items'[k].value = items[k].value]_vars

(***************************************************************************)
(* C10.  invalidateByTags(list) returns a map whose entry for each tag of  *)
(* the list holds every key that carried that tag when the call was made.  *)
(***************************************************************************)
C10_InvalidateByTagsPerTag ==
  [][\A tagList \in TagLists :
       (/\ last'.op = "invalidateByTags" /\ last'.arg = tagList
        /\ InvalidateByTags(tagList))
         => \A i \in DOMAIN tagList :
              Carriers(tagList[i]) \subseteq last'.ret[tagList[i]]]_vars


(***************************************************************************)
(* SpecCompression: set and get with compression disabled and enabled with *)
(* thresholds 10, 100 and 1000 bytes, for values whose JSON text is 7, 24  *)
(* and 202 bytes long.                                                     *)
(***************************************************************************)
Thresholds == {10, 100, 1000}

CompressionConfigs ==
  {Config(1000, "lru", 0, NoCompression, NoCircuitBreaker, FALSE)}
  \cup {Config(1000, "lru", 0, [enabled |-> TRUE, threshold |-> th],
               NoCircuitBreaker, FALSE) : th \in Thresholds}

InitCompression == InitWith(CompressionConfigs)

SetValue ==
  \E key \in {"a", "b"}, v \in Values, ttl \in {Undef, 1} :
    SetOp(key, v, Options(ttl, Undef, {}, {}))

NextCompression ==
  \/ Tick
  \/ SetValue
  \/ GetAny

SpecCompression == InitCompression /\ [][NextCompression]_vars

(***************************************************************************)
(* C3.  Round trip: with compression disabled, enabled below the threshold *)
(* and enabled at or above the threshold, a get(k) that directly follows   *)
(* set(k, v), the entry not being expired, returns v itself, never the     *)
(* serialized or compressed representation of v.                           *)
(***************************************************************************)
C3_RoundTrip ==
  [][\A key \in Keys :
       (/\ pc = "idle" /\ last.op = "set" /\ last.key = key
        /\ last'.op = "get" /\ last'.key = key
        /\ key \in DOMAIN items /\ ~IsExpired(items[key], now)
        /\ Get(key))
         => last'.ret = Raw(last.arg)]_vars

(***************************************************************************)
(* The circuit breaker (src/src/utils/CircuitBreaker.ts).  cb is the       *)
(* breaker's state record; the private failureCount field always equals    *)
(* state.failureCount.  The monitorWindow log feeds getFailureRate only and *)
(* takes no part in the transitions; it is not modelled.                   *)
(***************************************************************************)
FallbackValue == [enc |-> "raw", v |-> "fallback"]
BreakerOpenError == [enc |-> "error", v |-> "Circuit breaker is open"]
LoaderError == [enc |-> "error", v |-> "loader"]

\* a variant that closes the breaker and keeps the failure count
OnSuccessKeepsCount(b) == [b EXCEPT !.state = "closed"]

OnSuccess(b) == [b EXCEPT !.failureCount = 0, !.state = "closed"]

OnFailureAboveThreshold(b, t, cbcfg) ==
  LET n == b.failureCount + 1
      b1 == [b EXCEPT !.failureCount = n, !.lastFailureTime = t]
  IN IF n > cbcfg.failureThreshold
     THEN [b1 EXCEPT !.state = "open",
                     !.nextAttemptTime = t + cbcfg.recoveryTimeout]
     ELSE b1

\* a variant of onFailure that sets the deadline only when it opens a breaker
\* that was not open
OnFailureOpensOnce(b, t, cbcfg) ==
  LET n == b.failureCount + 1
      b1 == [b EXCEPT !.failureCount = n, !.lastFailureTime = t]
  IN IF n >= cbcfg.failureThreshold /\ b.state # "open"
     THEN [b1 EXCEPT !.state = "open",
                     !.nextAttemptTime = t + cbcfg.recoveryTimeout]
     ELSE b1

OnFailure(b, t, cbcfg) ==
  LET n == b.failureCount + 1
      b1 == [b EXCEPT !.failureCount = n, !.lastFailureTime = t]
  IN IF n >= cbcfg.failureThreshold
     THEN [b1 EXCEPT !.state = "open",
                     !.nextAttemptTime = t + cbcfg.recoveryTimeout]
     ELSE b1

ExecuteEntryNoDeadline(b, t) ==
  IF b.state = "open"
  THEN [admit |-> TRUE, cb |-> [b EXCEPT !.state = "half-open"]]
  ELSE [admit |-> TRUE, cb |-> b]

\* the entry of execute, up to the call of the operation
ExecuteEntry(b, t) ==
  IF b.state = "open"
  THEN IF t < b.nextAttemptTime
       THEN [admit |-> FALSE, cb |-> b]
       ELSE [admit |-> TRUE, cb |-> [b EXCEPT !.state = "half-open"]]
  ELSE [admit |-> TRUE, cb |-> b]

LoaderValues == {"x200"}

FreeCall == CHOOSE c \in CallIds :
              /\ calls[c] = NoCall
              /\ \A d \in CallIds : calls[d] = NoCall => c <= d

\* the effect of this.set(key, v, options) inside an asynchronous operation
SetEffect(key, v, options) ==
  LET S1 == SetInsert(Store, key, v, options, now, config)
      r == IF UpdateStatsThrows(S1) THEN [S |-> S1, spinning |-> FALSE]
           ELSE EvictIfNeeded(S1, now, config)
  IN /\ Install(r.S)
     /\ pc' = IF r.spinning THEN "evictIfNeeded" ELSE "idle"
     /\ linked' = LinkedAfterSet(key, options.dependsOn, DOMAIN S1.items,
                                 DOMAIN r.S.items)

\* getOrCompute up to the end of its get: a hit returns, a miss goes on
GetOrComputeStart(key, options) ==
  /\ pc = "idle"
  /\ \E c \in CallIds : calls[c] = NoCall
  /\ cacheStats.totalAccesses < MaxComputes
  /\ LET r == GetResult(Store, key, now, config) IN
       /\ Install(r.S)
       /\ linked' = Surviving(linked, DOMAIN r.S.items)
       /\ IF r.ret # Undefined
          THEN /\ last' = [op |-> "getOrCompute", key |-> key, arg |-> "",
                           ret |-> r.ret]
               /\ calls' = calls
          ELSE /\ last' = last
               /\ calls' = [calls EXCEPT ![FreeCall] =
                              [op |-> "getOrCompute", key |-> key,
                               phase |-> "got", value |-> "",
                               options |-> options, deps |-> << >>]]
  /\ UNCHANGED <<now, config, groups, pc, cb, loads>>

\* a variant with single-flight coalescing: a call that finds a loader
\* already running for its key does not invoke its own
GetOrComputeExecuteSingleFlight(c) ==
  /\ pc = "idle"
  /\ calls[c].op = "getOrCompute"
  /\ calls[c].phase = "got"
  /\ IF \E d \in CallIds \ {c} : /\ calls[d].op = "getOrCompute"
                                  /\ calls[d].key = calls[c].key
                                  /\ calls[d].phase = "loading"
     THEN /\ calls' = [calls EXCEPT ![c] = NoCall]
          /\ loads' = loads
     ELSE /\ calls' = [calls EXCEPT ![c].phase = "loading"]
          /\ loads' = loads + 1
  /\ UNCHANGED <<now, config, items, order, tags, groups, cacheStats, pc,
                 last, cb, linked>>

\* after the miss: the breaker's entry check, then the call of the loader
GetOrComputeExecute(c) ==
  /\ pc = "idle"
  /\ calls[c].op = "getOrCompute"
  /\ calls[c].phase = "got"
  /\ IF config.circuitBreaker.enabled
     THEN LET e == ExecuteEntry(cb, now) IN
            /\ cb' = e.cb
            /\ IF e.admit
               THEN /\ calls' = [calls EXCEPT ![c].phase = "loading"]
                    /\ loads' = loads + 1
                    /\ last' = last
               ELSE /\ calls' = [calls EXCEPT ![c] = NoCall]
                    /\ loads' = loads
                    /\ last' = [op |-> "getOrCompute", key |-> calls[c].key,
                                arg |-> "",
                                ret |-> IF config.circuitBreaker.fallback
                                        THEN FallbackValue
                                        ELSE BreakerOpenError]
     ELSE /\ cb' = cb
          /\ calls' = [calls EXCEPT ![c].phase = "loading"]
          /\ loads' = loads + 1
          /\ last' = last
  /\ UNCHANGED <<now, config, items, order, tags, groups, cacheStats, pc,
                 linked>>

\* the loader resolves with v and the operation stores it, or set throws
LoaderResolve(c, v) ==
  /\ pc = "idle"
  /\ calls[c].op = "getOrCompute"
  /\ calls[c].phase = "loading"
  /\ SetEffect(calls[c].key, v, calls[c].options)
  /\ calls' = [calls EXCEPT
                ![c].phase = IF SetThrows(calls[c].key, v, calls[c].options)
                             THEN "threw" ELSE "stored",
                ![c].value = v]
  /\ UNCHANGED <<now, config, groups, last, cb, loads>>

\* the operation returns: execute records the success
GetOrComputeReturn(c) ==
  /\ pc = "idle"
  /\ calls[c].op = "getOrCompute"
  /\ calls[c].phase = "stored"
  /\ cb' = IF config.circuitBreaker.enabled THEN OnSuccess(cb) ELSE cb
  /\ calls' = [calls EXCEPT ![c] = NoCall]
  /\ last' = [op |-> "getOrCompute", key |-> calls[c].key, arg |-> "",
              ret |-> Raw(calls[c].value)]
  /\ UNCHANGED <<now, config, items, order, tags, groups, cacheStats, pc,
                 loads, linked>>

\* the loader rejects, or set threw: execute records the failure
LoaderReject(c) ==
  /\ pc = "idle"
  /\ calls[c].op = "getOrCompute"
  /\ calls[c].phase \in {"loading", "threw"}
  /\ cb' = IF config.circuitBreaker.enabled
           THEN OnFailure(cb, now, config.circuitBreaker) ELSE cb
  /\ calls' = [calls EXCEPT ![c] = NoCall]
  /\ last' = [op |-> "getOrCompute", key |-> calls[c].key, arg |-> "",
              ret |-> IF /\ config.circuitBreaker.enabled
                         /\ config.circuitBreaker.fallback
                      THEN FallbackValue
                      ELSE IF calls[c].phase = "threw" THEN TypeError
                      ELSE LoaderError]
  /\ UNCHANGED <<now, config, items, order, tags, groups, cacheStats, pc,
                 loads, linked>>

GetCircuitBreakerState ==
  /\ pc = "idle"
  /\ last' = [op |-> "getCircuitBreakerState", key |-> NoKey, arg |-> "",
              ret |-> IF config.circuitBreaker.enabled THEN cb
                      ELSE Undefined]
  /\ UNCHANGED <<now, config, items, order, tags, groups, cacheStats, pc,
                 cb, calls, loads, linked>>

(***************************************************************************)
(* SpecBreaker: getOrCompute behind the circuit breaker.                   *)
(***************************************************************************)
FailureThresholds == {1, 2}
RecoveryTimeouts == {1, 2}

BreakerConfigs ==
  {Config(0, "lru", 0, NoCompression,
          [enabled |-> TRUE, failureThreshold |-> n, recoveryTimeout |-> r,
           fallback |-> f], FALSE) :
     n \in FailureThresholds, r \in RecoveryTimeouts, f \in BOOLEAN}
  \cup {Config(0, "lru", 0, NoCompression, NoCircuitBreaker, FALSE)}

InitBreaker == InitWith(BreakerConfigs)

GetOrComputeAny == \E key \in {"a"} : GetOrComputeStart(key, NoOptions)
ExecuteAny == \E c \in CallIds : GetOrComputeExecute(c)
LoaderResolveAny == \E c \in CallIds, v \in LoaderValues : LoaderResolve(c, v)
ReturnAny == \E c \in CallIds : GetOrComputeReturn(c)
LoaderRejectAny == \E c \in CallIds : LoaderReject(c)
DeleteCached == DeleteOp("a")

NextBreaker ==
  \/ Tick
  \/ GetOrComputeAny
  \/ ExecuteAny
  \/ LoaderResolveAny
  \/ ReturnAny
  \/ LoaderRejectAny
  \/ DeleteCached
  \/ GetCircuitBreakerState

SpecBreaker == InitBreaker /\ [][NextBreaker]_vars

\* C6: while the breaker is closed, a loader failure adds one to the failure
\* count and a success leaves the count at zero and the breaker closed; the
\* failure opens the breaker exactly when the count reaches failureThreshold,
\* and then nextAttemptTime is the time of that failure plus recoveryTimeout.
C6_ClosedStateCounting ==
  [][\A c \in CallIds :
       /\ (/\ config.circuitBreaker.enabled
           /\ cb.state = "closed"
           /\ calls[c].phase = "loading"
           /\ LoaderReject(c))
            => /\ cb'.failureCount = cb.failureCount + 1
               /\ cb'.state =
                    IF cb'.failureCount = config.circuitBreaker.failureThreshold
                    THEN "open" ELSE "closed"
               /\ cb'.state = "open" =>
                    cb'.nextAttemptTime =
                      now + config.circuitBreaker.recoveryTimeout
       /\ (/\ config.circuitBreaker.enabled
           /\ cb.state = "closed"
           /\ calls[c].phase = "stored"
           /\ GetOrComputeReturn(c))
            => /\ cb'.failureCount = 0
               /\ cb'.state = "closed"]_vars

\* two consecutive failures, the second at time 1, opened a breaker whose
\* failureThreshold is 2
C6_Witness ==
  /\ config.circuitBreaker.enabled
  /\ config.circuitBreaker.failureThreshold = 2
  /\ last.op = "getOrCompute"
  /\ last.ret \in {LoaderError, FallbackValue}
  /\ cb.state = "open"
  /\ cb.failureCount = 2
  /\ cb.lastFailureTime = 1
  /\ cb.nextAttemptTime = 1 + config.circuitBreaker.recoveryTimeout
  /\ loads = 2

\* C7: while the breaker is open and now < nextAttemptTime, a getOrCompute
\* that missed the cache is rejected with the fallback's value, or with the
\* breaker-open error when no fallback is configured; the loader is not
\* invoked and the breaker's state is left as it was.
C7_OpenRejects ==
  [][\A c \in CallIds :
       (/\ config.circuitBreaker.enabled
        /\ cb.state = "open"
        /\ now < cb.nextAttemptTime
        /\ calls[c].phase = "got"
        /\ GetOrComputeExecute(c))
         => /\ calls'[c] = NoCall
            /\ loads' = loads
            /\ cb' = cb
            /\ last'.op = "getOrCompute"
            /\ last'.key = calls[c].key
            /\ last'.ret = IF config.circuitBreaker.fallback
                           THEN FallbackValue ELSE BreakerOpenError]_vars

\* a third getOrCompute was rejected with the breaker-open error after two
\* failures had opened the breaker; the loader ran twice only
C7_Witness ==
  /\ config.circuitBreaker.enabled
  /\ ~config.circuitBreaker.fallback
  /\ config.circuitBreaker.failureThreshold = 2
  /\ last.op = "getOrCompute"
  /\ last.ret = BreakerOpenError
  /\ cb.state = "open"
  /\ now < cb.nextAttemptTime
  /\ cacheStats.misses = 3
  /\ loads = 2

\* C8: once the breaker has opened and recoveryTimeout has elapsed,
\* getCircuitBreakerState() reports 'half-open'.
C8_RecoveryReportsHalfOpen ==
  [][(/\ last'.op = "getCircuitBreakerState"
      /\ config.circuitBreaker.enabled
      /\ cb.state = "open"
      /\ now > cb.nextAttemptTime
      /\ GetCircuitBreakerState)
       => last'.ret.state = "half-open"]_vars

(***************************************************************************)
(* getOrComputeWithStale and its background refresh.  The refresh is a     *)
(* setTimeout(0) callback: it runs as a task of its own after the call has *)
(* returned.  last.arg tells whether the call returned the cached value    *)
(* ("cached") or waited for its loader ("loaded").                         *)
(***************************************************************************)
ItemValue(item, cfg) ==
  IF item.compressed /\ cfg.compression.enabled
  THEN Decompress(item.value).value
  ELSE item.value

\* the options the refresh passes to set: { ...options, staleTtl, ttl }
RefreshOptions(options, cfg) ==
  [options EXCEPT
     !.staleTtl = IF options.staleTtl # Undef THEN options.staleTtl ELSE 0,
     !.ttl = IF options.ttl # Undef THEN options.ttl ELSE cfg.defaultTtl]

\* the call up to its first suspension
GetOrComputeWithStaleStart(key, options) ==
  /\ pc = "idle"
  /\ \E c \in CallIds : calls[c] = NoCall
  /\ cacheStats.totalAccesses + loads < MaxComputes
  /\ IF key \in DOMAIN items /\ ~IsExpired(items[key], now)
     THEN /\ items' = [items EXCEPT ![key].accessCount = @ + 1,
                                    ![key].lastAccessed = now]
          /\ cacheStats' = [cacheStats EXCEPT !.hits = @ + 1,
                                              !.totalAccesses = @ + 1]
          /\ last' = [op |-> "getOrComputeWithStale", key |-> key,
                      arg |-> "cached", ret |-> ItemValue(items[key], config)]
          /\ UNCHANGED <<calls, loads>>
     ELSE IF /\ key \in DOMAIN items
             /\ IsStale(items[key], now)
             /\ config.staleWhileRevalidate
     THEN /\ cacheStats' = [cacheStats EXCEPT !.hits = @ + 1,
                                              !.totalAccesses = @ + 1]
          /\ calls' = [calls EXCEPT ![FreeCall] =
                         [op |-> "refresh", key |-> key, phase |-> "timer",
                          value |-> "", options |-> options, deps |-> << >>]]
          /\ last' = [op |-> "getOrComputeWithStale", key |-> key,
                      arg |-> "cached", ret |-> ItemValue(items[key], config)]
          /\ UNCHANGED <<items, loads>>
     ELSE /\ calls' = [calls EXCEPT ![FreeCall] =
                         [op |-> "getOrComputeWithStale", key |-> key,
                          phase |-> "loading", value |-> "",
                          options |-> options, deps |-> << >>]]
          /\ loads' = loads + 1
          /\ UNCHANGED <<items, cacheStats, last>>
  /\ UNCHANGED <<now, config, order, tags, groups, pc, cb, linked>>

\* the awaited loader resolves: the value is stored and returned
StaleLoaderResolve(c, v) ==
  /\ pc = "idle"
  /\ calls[c].op = "getOrComputeWithStale"
  /\ calls[c].phase = "loading"
  /\ SetEffect(calls[c].key, v, calls[c].options)
  /\ calls' = [calls EXCEPT ![c] = NoCall]
  /\ last' = [op |-> "getOrComputeWithStale", key |-> calls[c].key,
              arg |-> "loaded",
              ret |-> IF SetThrows(calls[c].key, v, calls[c].options)
                      THEN TypeError ELSE Raw(v)]
  /\ UNCHANGED <<now, config, groups, cb, loads>>

\* the awaited loader rejects: the call rejects
StaleLoaderReject(c) ==
  /\ pc = "idle"
  /\ calls[c].op = "getOrComputeWithStale"
  /\ calls[c].phase = "loading"
  /\ calls' = [calls EXCEPT ![c] = NoCall]
  /\ last' = [op |-> "getOrComputeWithStale", key |-> calls[c].key,
              arg |-> "loaded", ret |-> LoaderError]
  /\ UNCHANGED <<now, config, items, order, tags, groups, cacheStats, pc,
                 cb, loads, linked>>

\* the timer fires and the refresh calls the loader
RefreshTimer(c) ==
  /\ pc = "idle"
  /\ calls[c].op = "refresh"
  /\ calls[c].phase = "timer"
  /\ calls' = [calls EXCEPT ![c].phase = "loading"]
  /\ loads' = loads + 1
  /\ UNCHANGED <<now, config, items, order, tags, groups, cacheStats, pc,
                 last, cb, linked>>

\* the refresh's loader resolves and the refresh stores the value
RefreshResolve(c, v) ==
  /\ pc = "idle"
  /\ calls[c].op = "refresh"
  /\ calls[c].phase = "loading"
  /\ SetEffect(calls[c].key, v, RefreshOptions(calls[c].options, config))
  /\ calls' = IF SetThrows(calls[c].key, v,
                           RefreshOptions(calls[c].options, config))
              THEN [calls EXCEPT ![c] = NoCall]
              ELSE [calls EXCEPT ![c].phase = "stored", ![c].value = v]
  /\ UNCHANGED <<now, config, groups, last, cb, loads>>

\* after the set: the refresh stamps the entry's deadlines again
RefreshFinish(c) ==
  /\ pc = "idle"
  /\ calls[c].op = "refresh"
  /\ calls[c].phase = "stored"
  /\ LET key == calls[c].key
         o == RefreshOptions(calls[c].options, config)
     IN items' = IF key \in DOMAIN items
                 THEN [items EXCEPT
                         ![key].staleAt = IF o.staleTtl # 0
                                          THEN now + o.staleTtl ELSE Undef,
                         ![key].expiresAt = IF o.ttl # 0 /\ o.ttl > 0
                                            THEN now + o.ttl ELSE Undef]
                 ELSE items
  /\ calls' = [calls EXCEPT ![c] = NoCall]
  /\ UNCHANGED <<now, config, order, tags, groups, cacheStats, pc, last, cb,
                 loads, linked>>

\* a variant in which a failed refresh arms its timer again
RefreshRejectRetries(c) ==
  /\ pc = "idle"
  /\ calls[c].op = "refresh"
  /\ calls[c].phase = "loading"
  /\ calls' = [calls EXCEPT ![c].phase = "timer"]
  /\ UNCHANGED <<now, config, items, order, tags, groups, cacheStats, pc,
                 last, cb, loads, linked>>

\* the refresh's loader rejects: the error is swallowed
RefreshReject(c) ==
  /\ pc = "idle"
  /\ calls[c].op = "refresh"
  /\ calls[c].phase = "loading"
  /\ calls' = [calls EXCEPT ![c] = NoCall]
  /\ UNCHANGED <<now, config, items, order, tags, groups, cacheStats, pc,
                 last, cb, loads, linked>>

(***************************************************************************)
(* SpecStale: entries with ttl and staleTtl, read by getOrComputeWithStale *)
(* and by get.                                                             *)
(***************************************************************************)
StaleTtls == {Undef, 1, 3}

StaleConfigs ==
  {Config(0, "lru", d, NoCompression, NoCircuitBreaker, swr) :
     d \in {0, 1}, swr \in BOOLEAN}

InitStale == InitWith(StaleConfigs)

SetStale ==
  \E ttl \in {Undef, 1}, staleTtl \in StaleTtls :
    SetOp("a", "small", Options(ttl, staleTtl, {}, {}))

GetOrComputeWithStaleAny ==
  \E ttl \in {Undef, 1} :
    GetOrComputeWithStaleStart("a", Options(ttl, Undef, {}, {}))

StaleLoaderResolveAny ==
  \E c \in CallIds, v \in LoaderValues : StaleLoaderResolve(c, v)
StaleLoaderRejectAny == \E c \in CallIds : StaleLoaderReject(c)
RefreshTimerAny == \E c \in CallIds : RefreshTimer(c)
RefreshResolveAny == \E c \in CallIds, v \in LoaderValues : RefreshResolve(c, v)
RefreshFinishAny == \E c \in CallIds : RefreshFinish(c)
RefreshRejectAny == \E c \in CallIds : RefreshReject(c)
GetStale == Get("a")

NextStale ==
  \/ Tick
  \/ SetStale
  \/ GetStale
  \/ GetOrComputeWithStaleAny
  \/ StaleLoaderResolveAny
  \/ StaleLoaderRejectAny
  \/ RefreshTimerAny
  \/ RefreshResolveAny
  \/ RefreshFinishAny
  \/ RefreshRejectAny

SpecStale == InitStale /\ [][NextStale]_vars

\* C5: with staleWhileRevalidate enabled, a getOrComputeWithStale call on an
\* entry written with ttl < staleTtl, made at a time past expiresAt and
\* before staleAt, returns the cached value without waiting for the loader.
C5_StaleServedInWindow ==
  [][\A ttl \in {Undef, 1} :
       (/\ config.staleWhileRevalidate
        /\ "a" \in DOMAIN items
        /\ items["a"].expiresAt # Undef
        /\ items["a"].staleAt # Undef
        /\ items["a"].expiresAt < now
        /\ now < items["a"].staleAt
        /\ GetOrComputeWithStaleStart("a", Options(ttl, Undef, {}, {})))
         => /\ last'.op = "getOrComputeWithStale"
            /\ last'.arg = "cached"
            /\ last'.ret = items["a"].value]_vars

(***************************************************************************)
(* Statistics.  A rate is a float in the program; here it is the exact     *)
(* fraction [num, den] the division is applied to, times 100.              *)
(***************************************************************************)
Rate(part, total) == [num |-> part * 100, den |-> total]
ZeroRate == [num |-> 0, den |-> 1]

\* stats(): the counters and the derived rates
StatsResult(cs) ==
  [hits |-> cs.hits, misses |-> cs.misses, evictions |-> cs.evictions,
   totalAccesses |-> cs.totalAccesses,
   hitRate |-> IF cs.totalAccesses > 0
               THEN Rate(cs.hits, cs.totalAccesses) ELSE ZeroRate,
   missRate |-> IF cs.totalAccesses > 0
                THEN Rate(cs.misses, cs.totalAccesses) ELSE ZeroRate]

Stats ==
  /\ pc = "idle"
  /\ last' = [op |-> "stats", key |-> NoKey, arg |-> "",
              ret |-> StatsResult(cacheStats)]
  /\ UNCHANGED <<now, config, items, order, tags, groups, cacheStats, pc,
                 cb, calls, loads, linked>>

\* get(key), as often as bound allows
GetWithin(key, bound) ==
  /\ pc = "idle"
  /\ cacheStats.totalAccesses < bound
  /\ LET r == GetResult(Store, key, now, config)
     IN /\ Install(r.S)
        /\ last' = [op |-> "get", key |-> key, arg |-> "", ret |-> r.ret]
        /\ linked' = Surviving(linked, DOMAIN r.S.items)
  /\ UNCHANGED <<now, config, groups, pc, cb, calls, loads>>

(***************************************************************************)
(* SpecStats: sets and gets of fresh, expired and absent keys, and stats().*)
(***************************************************************************)
StatsConfigs == {Config(0, "lru", 0, NoCompression, NoCircuitBreaker, FALSE)}

InitStats == InitWith(StatsConfigs)

SetCounted ==
  \E key \in {"a", "b"}, ttl \in {Undef, 1} :
    SetOp(key, "small", Options(ttl, Undef, {}, {}))

GetCounted == \E key \in Keys : GetWithin(key, MaxComputes)

NextStats == Tick \/ SetCounted \/ GetCounted \/ Stats

SpecStats == InitStats /\ [][NextStats]_vars

\* C11: each get adds one to totalAccesses and one to exactly one of hits
\* and misses, so totalAccesses = hits + misses in every state; after at
\* least one access stats() reports hitRate = hits / (hits + misses) * 100
\* and missRate = misses / (hits + misses) * 100.
C11_Statistics ==
  /\ [](cacheStats.totalAccesses = cacheStats.hits + cacheStats.misses)
  /\ [][\A key \in Keys :
          (last'.op = "get" /\ last'.key = key /\ GetWithin(key, MaxComputes))
            => /\ cacheStats'.totalAccesses = cacheStats.totalAccesses + 1
               /\ \/ /\ cacheStats'.hits = cacheStats.hits + 1
                     /\ cacheStats'.misses = cacheStats.misses
                  \/ /\ cacheStats'.hits = cacheStats.hits
                     /\ cacheStats'.misses = cacheStats.misses + 1]_vars
  /\ [][(last'.op = "stats" /\ cacheStats.totalAccesses > 0 /\ Stats)
          => /\ last'.ret.hitRate.num * (cacheStats.hits + cacheStats.misses)
                  = cacheStats.hits * 100 * last'.ret.hitRate.den
             /\ last'.ret.missRate.num * (cacheStats.hits + cacheStats.misses)
                  = cacheStats.misses * 100 * last'.ret.missRate.den
             /\ last'.ret.hitRate.den > 0
             /\ last'.ret.missRate.den > 0]_vars

\* stats() after two hits and one miss, at a time after the first tick
C11_Witness ==
  /\ last.op = "stats"
  /\ last.ret.hits = 2
  /\ last.ret.misses = 1
  /\ last.ret.totalAccesses = 3
  /\ last.ret.hitRate = Rate(2, 3)
  /\ now > 0

(***************************************************************************)
(* SpecMemo: getOrCompute and getOrComputeWithStale on one key, with       *)
(* loaders that resolve with a string or with undefined.  With one key the *)
(* only set whose updateStats throws is the one that stores undefined.     *)
(***************************************************************************)
MemoValues == {"x200", "undefined"}

MemoConfigs ==
  {Config(0, "lru", d, NoCompression, NoCircuitBreaker, FALSE) : d \in {0, 1}}

InitMemo == InitWith(MemoConfigs)

MemoOptions == {NoOptions}

GetOrComputeMemo == \E o \in MemoOptions : GetOrComputeStart("a", o)
GetOrComputeWithStaleMemo ==
  \E o \in MemoOptions : GetOrComputeWithStaleStart("a", o)
LoaderResolveMemo == \E c \in CallIds, v \in MemoValues : LoaderResolve(c, v)
StaleLoaderResolveMemo ==
  \E c \in CallIds, v \in MemoValues : StaleLoaderResolve(c, v)

NextMemo ==
  \/ Tick
  \/ GetOrComputeMemo
  \/ ExecuteAny
  \/ LoaderResolveMemo
  \/ ReturnAny
  \/ LoaderRejectAny
  \/ GetOrComputeWithStaleMemo
  \/ StaleLoaderResolveMemo
  \/ StaleLoaderRejectAny

SpecMemo == InitMemo /\ [][NextMemo]_vars

\* C12: getOrCompute and getOrComputeWithStale on a key that is resident and
\* not expired return the cached value and do not invoke the loader.
C12_Memoization ==
  [][\A o \in MemoOptions :
       /\ (/\ "a" \in DOMAIN items
           /\ ~IsExpired(items["a"], now)
           /\ GetOrComputeStart("a", o))
            => /\ calls' = calls
               /\ loads' = loads
               /\ last'.op = "getOrCompute"
               /\ last'.ret = items["a"].value
       /\ (/\ "a" \in DOMAIN items
           /\ ~IsExpired(items["a"], now)
           /\ GetOrComputeWithStaleStart("a", o))
            => /\ calls' = calls
               /\ loads' = loads
               /\ last'.op = "getOrComputeWithStale"
               /\ last'.ret = items["a"].value]_vars

(***************************************************************************)
(* SpecLru: sets and reads under the lru policy with maxItems 1 or 2.  The *)
(* empty string is a key like any other.                                   *)
(***************************************************************************)
LruKeys == {"", "a", "b"}

LruConfigs ==
  {Config(m, "lru", 0, NoCompression, NoCircuitBreaker, FALSE) : m \in 1..2}

InitLru == InitWith(LruConfigs)

SetLru == \E key \in LruKeys : SetOp(key, "small", NoOptions)
GetLru == \E key \in LruKeys : Get(key)

NextLru == Tick \/ SetLru \/ GetLru \/ EvictSpin

SpecLru == InitLru /\ [][NextLru]_vars

\* the position of a resident key in the iteration order
Position(S, k) == CHOOSE i \in 1..Len(S.order) : S.order[i] = k

\* the entry with the minimum lastAccessed, the first in iteration order on
\* ties
LeastRecentlyUsed(S) ==
  CHOOSE k \in DOMAIN S.items :
    \A j \in DOMAIN S.items \ {k} :
      \/ S.items[k].lastAccessed < S.items[j].lastAccessed
      \/ /\ S.items[k].lastAccessed = S.items[j].lastAccessed
         /\ Position(S, k) < Position(S, j)

RECURSIVE KeptByLru(_, _)
\* the keys left when the least recently used entry is removed until the
\* count is <= maxItems
KeptByLru(S, maxItems) ==
  IF Size(S) <= maxItems THEN DOMAIN S.items
  ELSE KeptByLru(MapDelete(S, LeastRecentlyUsed(S)), maxItems)

\* C13: under lru, a set that raises the count above maxItems evicts the
\* entry with the minimum lastAccessed (the first in iteration order on
\* ties) until the count is <= maxItems; the set waits for the clock only
\* while no entry is older than the current time.
C13_LruEvictsOldest ==
  [][/\ \A key \in LruKeys :
          (last'.op = "set" /\ last'.key = key
           /\ SetOp(key, "small", NoOptions))
            => LET S1 == SetInsert(Store, key, "small", NoOptions, now, config)
               IN IF pc' = "idle"
                  THEN DOMAIN items' = KeptByLru(S1, config.maxItems)
                  ELSE \A k \in DOMAIN items' : items'[k].lastAccessed = now
     /\ (pc = "evictIfNeeded" /\ EvictSpin)
            => /\ pc' = "idle"
               /\ DOMAIN items' = KeptByLru(Store, config.maxItems)]_vars

(***************************************************************************)
(* Groups.  groups maps a group's name to its set of keys; a group's       *)
(* config is stored and never read, and is not modelled.                   *)
(***************************************************************************)
Groups == {"users", "posts"}

CreateGroup(name) ==
  /\ pc = "idle"
  /\ groups' = [g \in DOMAIN groups \cup {name} |->
                  IF g = name THEN {} ELSE groups[g]]
  /\ last' = [op |-> "createGroup", key |-> name, arg |-> "", ret |-> {}]
  /\ UNCHANGED <<now, config, items, order, tags, cacheStats, pc, cb, calls,
                 loads, linked>>

AddToGroup(groupName, key) ==
  /\ pc = "idle"
  /\ groups' = IF groupName \in DOMAIN groups
               THEN [groups EXCEPT ![groupName] = @ \cup {key}]
               ELSE groups
  /\ last' = [op |-> "addToGroup", key |-> groupName, arg |-> key,
              ret |-> groupName \in DOMAIN groups]
  /\ UNCHANGED <<now, config, items, order, tags, cacheStats, pc, cb, calls,
                 loads, linked>>

RemoveFromGroup(groupName, key) ==
  /\ pc = "idle"
  /\ groups' = IF groupName \in DOMAIN groups
               THEN [groups EXCEPT ![groupName] = @ \ {key}]
               ELSE groups
  /\ last' = [op |-> "removeFromGroup", key |-> groupName, arg |-> key,
              ret |-> groupName \in DOMAIN groups /\ key \in groups[groupName]]
  /\ UNCHANGED <<now, config, items, order, tags, cacheStats, pc, cb, calls,
                 loads, linked>>

\* the keys getGroupKeys(groupName) returns
GroupKeys(G, groupName) ==
  IF groupName \in DOMAIN G THEN G[groupName] ELSE {}

GetGroupKeys(groupName) ==
  /\ pc = "idle"
  /\ last' = [op |-> "getGroupKeys", key |-> groupName, arg |-> "",
              ret |-> GroupKeys(groups, groupName)]
  /\ UNCHANGED <<now, config, items, order, tags, groups, cacheStats, pc,
                 cb, calls, loads, linked>>

DeleteGroupKeepsKeys(S, G, groupName) ==
  IF groupName \notin DOMAIN G
  THEN [S |-> S, groups |-> G, ret |-> FALSE]
  ELSE [S |-> S,
        groups |-> [g \in DOMAIN G \ {groupName} |-> G[g]],
        ret |-> TRUE]

\* what deleteGroup(groupName) returns, and the store and groups it leaves
DeleteGroupResult(S, G, groupName) ==
  IF groupName \notin DOMAIN G
  THEN [S |-> S, groups |-> G, ret |-> FALSE]
  ELSE [S |-> DeleteEach(S, G[groupName]),
        groups |-> [g \in DOMAIN G \ {groupName} |-> G[g]],
        ret |-> TRUE]

\* last.arg records the group's members and the links below them at the call
DeleteGroup(groupName) ==
  /\ pc = "idle"
  /\ LET r == DeleteGroupResult(Store, groups, groupName)
         members == GroupKeys(groups, groupName)
     IN /\ Install(r.S)
        /\ groups' = r.groups
        /\ linked' = Surviving(linked, DOMAIN r.S.items)
        /\ last' = [op |-> "deleteGroup", key |-> groupName,
                    arg |-> [members |-> members,
                             below |-> LinkedBelow(members \cap DOMAIN items,
                                                   linked)],
                    ret |-> r.ret]
  /\ UNCHANGED <<now, config, pc, cb, calls, loads>>

(***************************************************************************)
(* SpecGroups: entries (b may depend on a, either may carry a tag),        *)
(* groups, deleteGroup and clear.                                          *)
(***************************************************************************)
GroupsConfigs == {Config(0, "lru", 0, NoCompression, NoCircuitBreaker, FALSE)}

InitGroups == InitWith(GroupsConfigs)

SetMember ==
  \E key \in {"a", "b"}, tgs \in {{}, {"users"}} :
    \E deps \in (IF key = "b" THEN SUBSET {"a"} ELSE {{}}) :
      SetOp(key, "small", Options(Undef, Undef, deps, tgs))

CreateGroupAny == \E g \in Groups : CreateGroup(g)
AddToGroupAny == \E g \in Groups, key \in {"a", "b"} : AddToGroup(g, key)
RemoveFromGroupAny ==
  \E g \in Groups, key \in {"a", "b"} : RemoveFromGroup(g, key)
GetGroupKeysAny == \E g \in Groups : GetGroupKeys(g)
DeleteGroupAny == \E g \in Groups : DeleteGroup(g)

NextGroups ==
  \/ SetMember
  \/ CreateGroupAny
  \/ AddToGroupAny
  \/ RemoveFromGroupAny
  \/ GetGroupKeysAny
  \/ DeleteGroupAny
  \/ Clear

SpecGroups == InitGroups /\ [][NextGroups]_vars

\* C14: deleteGroup(g) on a registered group returns true, removes the
\* registration (getGroupKeys(g) is empty) and leaves no former member and
\* no key linked below a member resident; on an unknown group it returns
\* false and changes no entry and no group.
C14_DeleteGroup ==
  [][\A g \in Groups :
       (last'.op = "deleteGroup" /\ last'.key = g /\ DeleteGroup(g))
         => IF g \in DOMAIN groups
            THEN /\ last'.ret = TRUE
                 /\ g \notin DOMAIN groups'
                 /\ GroupKeys(groups', g) = {}
                 /\ \A h \in DOMAIN groups \ {g} :
                      h \in DOMAIN groups' /\ groups'[h] = groups[h]
                 /\ \A k \in groups[g] : k \notin DOMAIN items'
                 /\ \A e \in LinkedBelow(groups[g] \cap DOMAIN items, linked) :
                      e[1] \notin DOMAIN items'
            ELSE /\ last'.ret = FALSE
                 /\ UNCHANGED <<items, order, tags, groups, cacheStats>>]_vars

\* deleteGroup("users") with the one member a removed a and b, which
\* depended on a
C14_Witness ==
  /\ last.op = "deleteGroup"
  /\ last.key = "users"
  /\ last.ret = TRUE
  /\ last.arg.members = {"a"}
  /\ last.arg.below = {<<"b", "a">>}
  /\ DOMAIN items = {}
  /\ "users" \notin DOMAIN groups

(***************************************************************************)
(* bulk(operation).  Its awaits resume in microtasks; with no other        *)
(* operation pending it runs as one step.  The sets of a batch are taken   *)
(* to leave their eviction loop at once (SpecBulk's configurations never   *)
(* make it wait).                                                          *)
(***************************************************************************)
RECURSIVE BulkGets(_, _, _, _, _), BulkSets(_, _, _, _), BulkDeletes(_, _)

\* for (const key of operation.get) results.get[key] = await this.get(key)
BulkGets(S, keys, results, t, cfg) ==
  IF keys = << >> THEN [S |-> S, ret |-> results]
  ELSE LET r == GetResult(S, Head(keys), t, cfg)
       IN BulkGets(r.S, Tail(keys),
                   [k \in (DOMAIN results) \cup {Head(keys)} |->
                      IF k = Head(keys) THEN r.ret ELSE results[k]],
                   t, cfg)

\* for (const { key, value, options } of operation.set) await this.set(...)
BulkSets(S, sets, t, cfg) ==
  IF sets = << >> THEN S
  ELSE LET e == Head(sets)
           S1 == SetInsert(S, e.key, e.value, e.options, t, cfg)
       IN BulkSets(EvictIfNeeded(S1, t, cfg).S, Tail(sets), t, cfg)

\* for (const key of operation.delete) this.delete(key)
BulkDeletes(S, keys) ==
  IF keys = << >> THEN S
  ELSE BulkDeletes(Delete(S, Head(keys)), Tail(keys))

SetKeys(sets) == [i \in 1..Len(sets) |-> sets[i].key]

BulkResultDeleteFirst(S, operation, t, cfg) ==
  LET g == BulkGets(S, operation.get, EmptyMap, t, cfg)
      d == BulkDeletes(g.S, operation.delete)
      st == BulkSets(d, operation.set, t, cfg)
      i == InvalidateByTagsResult(st, operation.invalidateByTag, EmptyMap)
  IN [S |-> i.S,
      ret |-> [get |-> g.ret, set |-> SetKeys(operation.set),
               delete |-> operation.delete, invalidateByTag |-> i.ret]]

\* the results bulk(operation) returns and the store it leaves
BulkResult(S, operation, t, cfg) ==
  LET g == BulkGets(S, operation.get, EmptyMap, t, cfg)
      st == BulkSets(g.S, operation.set, t, cfg)
      d == BulkDeletes(st, operation.delete)
      i == InvalidateByTagsResult(d, operation.invalidateByTag, EmptyMap)
  IN [S |-> i.S,
      ret |-> [get |-> g.ret, set |-> SetKeys(operation.set),
               delete |-> operation.delete, invalidateByTag |-> i.ret]]

Bulk(operation) ==
  /\ pc = "idle"
  /\ cacheStats.totalAccesses + Len(operation.get) <= MaxComputes
  /\ cacheStats.evictions < MaxEvictions
  /\ LET r == BulkResult(Store, operation, now, config)
         written == {operation.set[i].key : i \in 1..Len(operation.set)}
     IN /\ Install(r.S)
        /\ linked' = Surviving({e \in linked : e[1] \notin written
                                               /\ e[2] \notin written},
                               DOMAIN r.S.items)
        /\ last' = [op |-> "bulk", key |-> NoKey, arg |-> operation,
                    ret |-> r.ret]
  /\ UNCHANGED <<now, config, groups, pc, cb, calls, loads>>

(***************************************************************************)
(* SpecBulk: batches over two keys and one tag, each list of a batch with  *)
(* at most one element except the get list.                                *)
(***************************************************************************)
BulkKeys == {"a", "b"}

BulkSetEntries ==
  {[key |-> "a", value |-> "small", options |-> NoOptions],
   [key |-> "a", value |-> "x200",
    options |-> Options(Undef, Undef, {}, {"users"})],
   [key |-> "b", value |-> "small",
    options |-> Options(Undef, Undef, {}, {"users"})],
   [key |-> "b", value |-> "x200", options |-> NoOptions]}

UpToOne(S) == {<< >>} \cup {<<x>> : x \in S}

BulkOperations ==
  {[get |-> g, set |-> st, delete |-> d, invalidateByTag |-> i] :
     g \in UpToOne(BulkKeys) \cup {<<"a", "b">>},
     st \in UpToOne(BulkSetEntries),
     d \in UpToOne({"a"}),
     i \in UpToOne({"users"})}

BulkConfigs == {Config(0, "lru", 0, NoCompression, NoCircuitBreaker, FALSE)}

InitBulk == InitWith(BulkConfigs)

BulkAny == \E operation \in BulkOperations : Bulk(operation)

NextBulk == BulkAny

SpecBulk == InitBulk /\ [][NextBulk]_vars

\* C15: bulk applies get, then set, then delete, then invalidateByTag: the
\* get results are those of the store before the batch's sets; a key set
\* and deleted in one batch is absent afterwards, and so is a key set with
\* a tag the batch invalidates; the result lists every set key, every
\* deleted key and, for each listed tag, the keys invalidated for it.
C15_BulkOrder ==
  [][\A o \in BulkOperations :
       (last'.op = "bulk" /\ last'.arg = o /\ Bulk(o))
         => /\ \A i \in 1..Len(o.get) :
                 last'.ret.get[o.get[i]] =
                   IF o.get[i] \in DOMAIN items THEN items[o.get[i]].value
                   ELSE Undefined
            /\ \A i \in 1..Len(o.set) :
                 /\ (\E j \in 1..Len(o.delete) : o.delete[j] = o.set[i].key)
                      => o.set[i].key \notin DOMAIN items'
                 /\ (\E j \in 1..Len(o.invalidateByTag) :
                       o.invalidateByTag[j] \in o.set[i].options.tags)
                      => o.set[i].key \notin DOMAIN items'
            /\ \A j \in 1..Len(o.delete) : o.delete[j] \notin DOMAIN items'
            /\ last'.ret.set = SetKeys(o.set)
            /\ last'.ret.delete = o.delete
            /\ DOMAIN last'.ret.invalidateByTag =
                 {o.invalidateByTag[j] : j \in 1..Len(o.invalidateByTag)}
            /\ \A t \in DOMAIN last'.ret.invalidateByTag :
                 \A k \in last'.ret.invalidateByTag[t] :
                   k \notin DOMAIN items']_vars

\* a batch that read a ("small"), set it to "x200" with the tag users and
\* invalidated users: the read shows the old value and a is gone
C15_Witness ==
  /\ last.op = "bulk"
  /\ last.arg.get = <<"a">>
  /\ Len(last.arg.set) = 1
  /\ last.arg.set[1].key = "a"
  /\ last.arg.set[1].value = "x200"
  /\ last.arg.set[1].options.tags = {"users"}
  /\ last.arg.delete = << >>
  /\ last.arg.invalidateByTag = <<"users">>
  /\ last.ret.get["a"] = Raw("small")
  /\ last.ret.invalidateByTag["users"] = {"a"}
  /\ "a" \notin DOMAIN items

(***************************************************************************)
(* The memory estimate of updateStats, and the maxMemory setting.  No      *)
(* operation of the program reads maxMemory except the metrics report.     *)
(***************************************************************************)
WithMaxMemory(cfg, maxMemory) == [cfg EXCEPT !.maxMemory = maxMemory]

KeyLength(key) == IF key = "" THEN 0 ELSE 1

\* the bytes estimateMemoryUsage counts for one entry
EstimateEntry(key, item) ==
  KeyLength(key) * 2
  + (IF item.compressed THEN GzipSize(item.value.v)
     ELSE IF item.value.enc = "raw" THEN JsonSize(item.value.v) * 2
     ELSE BufferJsonSize(item.value.v) * 2)
  + 100

RECURSIVE EstimateMemoryUsage(_, _)
EstimateMemoryUsage(S, i) ==
  IF i > Len(S.order) THEN 0
  ELSE EstimateEntry(S.order[i], S.items[S.order[i]])
       + EstimateMemoryUsage(S, i + 1)

(***************************************************************************)
(* SpecMemory: 50-character values under the default maxItems and a        *)
(* maxMemory of 100 or 1000.                                               *)
(***************************************************************************)
MemoryLimits == {100, 1000}

MemoryConfigs ==
  {WithMaxMemory(Config(1000, "lru", 0, NoCompression, NoCircuitBreaker,
                        FALSE), m) : m \in MemoryLimits}

InitMemory == InitWith(MemoryConfigs)

SetLarge == \E key \in Keys : SetOp(key, "x50", NoOptions)

NextMemory == Tick \/ SetLarge \/ GetAny \/ Stats

SpecMemory == InitMemory /\ [][NextMemory]_vars

\* C16: when the estimated memory usage of the stored entries exceeds the
\* configured maxMemory, set evicts entries: after a set that leaves the
\* estimate above maxMemory, evictions is greater than 0.
C16_MemoryLimitEvicts ==
  (/\ pc = "idle"
   /\ last.op = "set"
   /\ config.maxMemory > 0
   /\ EstimateMemoryUsage(Store, 1) > config.maxMemory)
    => cacheStats.evictions > 0

(***************************************************************************)
(* warmWithDependencies(items): sortByDependencies, then warm, which       *)
(* starts every loader at once and stores each result when its own loader  *)
(* resolves.  A warmup item is [key, deps, ttl]; staleTtl and dependsOn    *)
(* are not given.                                                          *)
(***************************************************************************)
\* dependencyMap.get(key): the last item of the batch with that key
DependencyMapGet(batch, key) ==
  batch[CHOOSE j \in 1..Len(batch) :
          /\ batch[j].key = key
          /\ \A i \in 1..Len(batch) : batch[i].key = key => i <= j]

RECURSIVE Visit(_, _, _), VisitDeps(_, _, _, _), VisitAll(_, _, _)

VisitDeps(deps, i, st, batch) ==
  IF i > Len(deps) THEN st
  ELSE IF \E j \in 1..Len(batch) : batch[j].key = deps[i]
       THEN VisitDeps(deps, i + 1,
                      Visit(DependencyMapGet(batch, deps[i]), st, batch),
                      batch)
       ELSE VisitDeps(deps, i + 1, st, batch)

Visit(item, st, batch) ==
  IF item.key \in st.visited THEN st
  ELSE LET st1 == [st EXCEPT !.visited = @ \cup {item.key}]
           st2 == VisitDeps(item.deps, 1, st1, batch)
       IN [st2 EXCEPT !.sorted = Append(@, item)]

VisitAll(batch, i, st) ==
  IF i > Len(batch) THEN st
  ELSE VisitAll(batch, i + 1, Visit(batch[i], st, batch))

SortByDependencies(batch) ==
  VisitAll(batch, 1, [visited |-> {}, sorted |-> << >>]).sorted

WarmWithDependencies(batch) ==
  /\ pc = "idle"
  /\ \A c \in CallIds : calls[c] = NoCall
  /\ Len(batch) <= MaxCalls
  /\ loads + Len(batch) <= MaxComputes
  /\ LET sorted == SortByDependencies(batch) IN
       /\ calls' = [c \in CallIds |->
                      IF c <= Len(sorted)
                      THEN [op |-> "warm", key |-> sorted[c].key,
                            phase |-> "loading", value |-> "",
                            options |-> Options(sorted[c].ttl, Undef, {}, {}),
                            deps |-> sorted[c].deps]
                      ELSE NoCall]
       /\ loads' = loads + Len(sorted)
       /\ last' = IF sorted = << >>
                  THEN [op |-> "warmWithDependencies", key |-> NoKey,
                        arg |-> batch, ret |-> Undefined]
                  ELSE [op |-> "warming", key |-> NoKey, arg |-> batch,
                        ret |-> Undefined]
  /\ UNCHANGED <<now, config, items, order, tags, groups, cacheStats, pc, cb,
                 linked>>

\* last after a warm item has finished: Promise.all resolves with the last
WarmLast(c) ==
  IF \A d \in CallIds \ {c} : calls[d].op # "warm"
  THEN [last EXCEPT !.op = "warmWithDependencies"]
  ELSE last

\* an item's loader resolves and its value is stored (a throwing set is
\* caught)
WarmLoaderResolve(c, v) ==
  /\ pc = "idle"
  /\ calls[c].op = "warm"
  /\ SetEffect(calls[c].key, v, calls[c].options)
  /\ calls' = [calls EXCEPT ![c] = NoCall]
  /\ last' = WarmLast(c)
  /\ UNCHANGED <<now, config, groups, cb, loads>>

\* an item's loader rejects: the error is caught
WarmLoaderReject(c) ==
  /\ pc = "idle"
  /\ calls[c].op = "warm"
  /\ calls' = [calls EXCEPT ![c] = NoCall]
  /\ last' = WarmLast(c)
  /\ UNCHANGED <<now, config, items, order, tags, groups, cacheStats, pc, cb,
                 loads, linked>>

(***************************************************************************)
(* SpecWarm: batches of one or two items over the keys a and b, whose deps *)
(* name the other key, a key outside the batch, or nothing.                *)
(***************************************************************************)
WarmItems ==
  {[key |-> k, deps |-> d, ttl |-> ttl] :
     k \in {"a", "b"}, d \in {<< >>, <<"a">>, <<"b">>, <<"c">>},
     ttl \in {Undef, 1}}

WarmBatches ==
  {<<x>> : x \in WarmItems}
  \cup {p \in WarmItems \X WarmItems : p[1].key # p[2].key}

WarmConfigs == {Config(0, "lru", 0, NoCompression, NoCircuitBreaker, FALSE)}

InitWarm == InitWith(WarmConfigs)

WarmAny == \E batch \in WarmBatches : WarmWithDependencies(batch)
WarmLoaderResolveAny ==
  \E c \in CallIds, v \in LoaderValues : WarmLoaderResolve(c, v)
WarmLoaderRejectAny == \E c \in CallIds : WarmLoaderReject(c)

NextWarm == Tick \/ WarmAny \/ WarmLoaderResolveAny \/ WarmLoaderRejectAny

SpecWarm == InitWarm /\ [][NextWarm]_vars

\* C17: warmWithDependencies stores an item's loader result only after
\* every item of the batch named in its deps has been stored, whatever the
\* order in which the loaders complete: no result is stored while the loader
\* of one of its deps is still running.
C17_WarmInDependencyOrder ==
  [][\A c \in CallIds :
       (/\ calls[c].op = "warm"
        /\ \E v \in LoaderValues : WarmLoaderResolve(c, v))
         => \A i \in 1..Len(calls[c].deps) :
              \A d \in CallIds \ {c} :
                ~(calls[d].op = "warm" /\ calls[d].key = calls[c].deps[i])]_vars

\* C18: after every completed operation, for any two resident keys A and B,
\* A is in entries[B].dependents if and only if B is in entries[A].dependsOn.
C18_DependencySymmetry ==
  pc = "idle" =>
    \A A \in DOMAIN items, B \in DOMAIN items :
      A \in items[B].dependents <=> B \in items[A].dependsOn

\* the keys getKeysByTag(tag) returns
KeysByTag(T, tag) == IF tag \in DOMAIN T THEN T[tag] ELSE {}

\* C19: after every completed operation, key k is in the tag index's member
\* set for tag t if and only if k is resident and t is in entries[k].tags.
C19_TagIndexExact ==
  pc = "idle" =>
    \A t \in Tags, k \in Keys :
      k \in KeysByTag(tags, t) <=> (k \in DOMAIN items /\ t \in items[k].tags)

\* C20: after clear() returns there are no entries, no tags and no groups:
\* getKeysByTag(t) is empty for every tag, getGroupKeys(g) is empty for
\* every group and addToGroup(g, k) would return false.
C20_ClearDropsEverything ==
  (pc = "idle" /\ last.op = "clear") =>
    /\ DOMAIN items = {}
    /\ \A t \in Tags : KeysByTag(tags, t) = {}
    /\ \A g \in Groups : GroupKeys(groups, g) = {} /\ g \notin DOMAIN groups

(***************************************************************************)
(* getOrComputeWithStale past staleAt, and the background refresh.         *)
(***************************************************************************)
StaleCallTtls == {Undef, 1}
StaleCallOptions(ttl) == Options(ttl, Undef, {}, {})

\* the call is left waiting for a loader it has just invoked
WaitsForLoader(key) ==
  /\ loads' = loads + 1
  /\ \E c \in CallIds :
       /\ calls[c] = NoCall
       /\ calls'[c].op = "getOrComputeWithStale"
       /\ calls'[c].key = key
       /\ calls'[c].phase = "loading"

\* C21: a getOrComputeWithStale call made when now is past the staleAt
\* of an entry (one whose expiresAt is set and not later than its staleAt),
\* or when the key is absent, invokes the loader before it returns
\* (it never returns the old cached value), and when the loader resolves the
\* result is stored via set and returned.
C21_ExpiredReadLoads ==
  [][/\ \A ttl \in StaleCallTtls :
          (/\ \/ "a" \notin DOMAIN items
              \/ /\ "a" \in DOMAIN items
                 /\ items["a"].staleAt # Undef
                 /\ items["a"].expiresAt # Undef
                 /\ items["a"].expiresAt <= items["a"].staleAt
                 /\ now > items["a"].staleAt
           /\ GetOrComputeWithStaleStart("a", StaleCallOptions(ttl)))
            => WaitsForLoader("a")
     /\ \A c \in CallIds, v \in LoaderValues :
          StaleLoaderResolve(c, v)
            => /\ last'.ret = Raw(v)
               /\ "a" \in DOMAIN items'
               /\ items'["a"].value = Raw(v)]_vars

\* C22: when the refresh scheduled by a stale read succeeds, the entry is
\* rewritten with the loader's value and keeps the deadlines it was set
\* with: an entry that had a staleAt (an expiresAt) has one again after the
\* refresh, also when the getOrComputeWithStale call passed no options.
C22_RefreshKeepsStaleWindow ==
  [][\A c \in CallIds, v \in LoaderValues :
       (/\ "a" \in DOMAIN items
        /\ items["a"].staleAt # Undef
        /\ RefreshResolve(c, v))
         => /\ "a" \in DOMAIN items'
            /\ items'["a"].value = Raw(v)
            /\ items'["a"].staleAt # Undef
            /\ items["a"].expiresAt # Undef => items'["a"].expiresAt # Undef]_vars

(***************************************************************************)
(* SpecRefresh: stale reads and their refreshes, with staleWhileRevalidate *)
(* enabled; the entry has a stale window or none.                          *)
(***************************************************************************)
RefreshConfigs ==
  {Config(0, "lru", 0, NoCompression, NoCircuitBreaker, TRUE)}

InitRefresh == InitWith(RefreshConfigs)

SetRefresh ==
  \E staleTtl \in {Undef, 1} :
    SetOp("a", "small", Options(1, staleTtl, {}, {}))

GetOrComputeWithStaleRefresh ==
  \E ttl \in StaleCallTtls :
    GetOrComputeWithStaleStart("a", StaleCallOptions(ttl))

NextRefresh ==
  \/ Tick
  \/ SetRefresh
  \/ GetOrComputeWithStaleRefresh
  \/ StaleLoaderResolveAny
  \/ StaleLoaderRejectAny
  \/ RefreshTimerAny
  \/ RefreshResolveAny
  \/ RefreshFinishAny
  \/ RefreshRejectAny

SpecRefresh == InitRefresh /\ [][NextRefresh]_vars

\* the refreshes scheduled or running
Refreshes(cs) == {c \in CallIds : cs[c].op = "refresh"}

\* C23: a stale read returns the cached value and schedules exactly one
\* refresh; when that refresh's loader fails the entry (value, expiresAt,
\* staleAt) is unchanged, nothing is returned or thrown to a caller, and the
\* refresh is over: a loader runs again only for a refresh armed by a later
\* read or for a read that waits for it.
C23_RefreshFailure ==
  [][/\ \A c \in CallIds :
          RefreshReject(c)
            => /\ items' = items
               /\ last' = last
               /\ loads' = loads
               /\ Refreshes(calls') = Refreshes(calls) \ {c}
     /\ \A ttl \in StaleCallTtls :
          (/\ "a" \in DOMAIN items
           /\ IsExpired(items["a"], now)
           /\ IsStale(items["a"], now)
           /\ config.staleWhileRevalidate
           /\ GetOrComputeWithStaleStart("a", StaleCallOptions(ttl)))
            => /\ last'.arg = "cached"
               /\ last'.ret = items["a"].value
               /\ loads' = loads
               /\ Cardinality(Refreshes(calls')) = Cardinality(Refreshes(calls)) + 1
     /\ \A c \in CallIds :
          (calls'[c].op = "refresh" /\ calls'[c].phase = "timer"
           /\ calls[c] # calls'[c])
            => /\ calls[c] = NoCall
               /\ cacheStats'.hits = cacheStats.hits + 1
     /\ loads' # loads
          => /\ loads' = loads + 1
             /\ \E c \in CallIds :
                  /\ calls'[c].phase = "loading"
                  /\ \/ calls[c].phase = "timer"
                     \/ calls[c] = NoCall]_vars

\* a stale read was the last operation, its refresh has failed and is over,
\* and the entry still holds the value it had
C23_Witness ==
  /\ pc = "idle"
  /\ last.op = "getOrComputeWithStale"
  /\ last.arg = "cached"
  /\ "a" \in DOMAIN items
  /\ items["a"].accessCount = 0
  /\ items["a"].value = Raw("small")
  /\ IsStale(items["a"], now)
  /\ \A c \in CallIds : calls[c] = NoCall
  /\ loads >= 1

\* C24: while the breaker is half-open, a trial that succeeds closes it and
\* sets the failure count to 0; a trial that fails opens it again with
\* nextAttemptTime = (time of that failure) + recoveryTimeout.
C24_HalfOpenTrial ==
  [][\A c \in CallIds :
       /\ (/\ config.circuitBreaker.enabled
           /\ cb.state = "half-open"
           /\ GetOrComputeReturn(c))
            => /\ cb'.state = "closed"
               /\ cb'.failureCount = 0
       /\ (/\ config.circuitBreaker.enabled
           /\ cb.state = "half-open"
           /\ LoaderReject(c))
            => /\ cb'.state = "open"
               /\ cb'.lastFailureTime = now
               /\ cb'.nextAttemptTime =
                    now + config.circuitBreaker.recoveryTimeout]_vars

\* with failureThreshold 1 the first failure opens the breaker, and at most
\* MaxCalls - 1 other loaders were admitted before it; one failure more than
\* MaxCalls means a loader admitted as a half-open trial has failed
C24_Witness ==
  /\ config.circuitBreaker.enabled
  /\ config.circuitBreaker.failureThreshold = 1
  /\ cb.state = "open"
  /\ cb.failureCount = MaxCalls + 1
  /\ cb.lastFailureTime = now
  /\ cb.nextAttemptTime = now + config.circuitBreaker.recoveryTimeout
  /\ last.op = "getOrCompute"
  /\ last.ret \in {LoaderError, FallbackValue}

\* C25: while the breaker is half-open (the trial that moved it there is
\* still in flight: any outcome recorded by execute leaves half-open), another
\* getOrCompute that reaches the breaker does not invoke its loader.
C25_HalfOpenAdmitsOne ==
  [][\A c \in CallIds :
       (/\ config.circuitBreaker.enabled
        /\ cb.state = "half-open"
        /\ \E d \in CallIds \ {c} : calls[d].phase \in {"loading", "stored"}
        /\ GetOrComputeExecute(c))
         => loads' = loads]_vars

(***************************************************************************)
(* SpecFallback: getOrCompute and getOrComputeWithStale on one key, with   *)
(* and without a circuit breaker and its fallback.                         *)
(***************************************************************************)
InitFallback == InitWith(BreakerConfigs)

GetOrComputeWithStaleFallback == GetOrComputeWithStaleStart("a", NoOptions)

NextFallback ==
  \/ Tick
  \/ GetOrComputeAny
  \/ ExecuteAny
  \/ LoaderResolveAny
  \/ ReturnAny
  \/ LoaderRejectAny
  \/ GetOrComputeWithStaleFallback
  \/ StaleLoaderResolveAny
  \/ StaleLoaderRejectAny
  \/ DeleteCached

SpecFallback == InitFallback /\ [][NextFallback]_vars

\* C26: when the loader of a getOrCompute or getOrComputeWithStale call
\* fails, the caller receives the fallback's value if a circuit-breaker
\* fallback is configured, and the loader's error otherwise.
C26_LoaderFailure ==
  [][\A c \in CallIds :
       (/\ calls[c].phase = "loading"
        /\ LoaderReject(c) \/ StaleLoaderReject(c))
         => /\ last'.key = calls[c].key
            /\ last'.ret = IF /\ config.circuitBreaker.enabled
                              /\ config.circuitBreaker.fallback
                           THEN FallbackValue ELSE LoaderError]_vars

\* C27: when set(k, v2, {dependsOn: D2}) overwrites a resident k, k is
\* afterwards registered as a dependent of exactly the resident keys of D2
\* (so deleting a key of the former dependsOn that is not in D2 leaves k
\* resident).
C27_OverwriteReplacesDependencies ==
  [][\A key \in Keys, D2 \in DepSets :
       (/\ last'.op = "set"
        /\ last'.key = key
        /\ key \in DOMAIN items
        /\ SetOp(key, "small", Options(Undef, Undef, D2, {}))
        /\ key \in DOMAIN items')
         => \A parent \in DOMAIN items' :
              key \in items'[parent].dependents <=> parent \in D2]_vars

\* C28: after every completed operation, every key listed in a resident
\* entry's dependents set is itself resident (an entry that was removed, by
\* whatever path, is no longer listed by a key it depended on).
C28_NoDanglingDependents ==
  pc = "idle" =>
    \A parent \in DOMAIN items : items[parent].dependents \subseteq DOMAIN items

(***************************************************************************)
(* SpecHas: entries with and without a ttl, read by has and by get.        *)
(***************************************************************************)
HasConfigs ==
  {Config(0, "lru", d, NoCompression, NoCircuitBreaker, FALSE) : d \in {0, 1}}

InitHas == InitWith(HasConfigs)

HasKeys == {"a", "b"}

SetHas ==
  \E key \in HasKeys, ttl \in {Undef, 1} :
    SetOp(key, "small", Options(ttl, Undef, {}, {}))

HasAny == \E key \in HasKeys : Has(key)

GetHas == \E key \in HasKeys : Get(key)

NextHas ==
  \/ Tick
  \/ SetHas
  \/ HasAny
  \/ GetHas

SpecHas == InitHas /\ [][NextHas]_vars

\* C29: has(key) returns true if and only if key is resident and its expiry
\* has not passed (no expiresAt, or now <= expiresAt), and it changes
\* nothing: the counters, every entry (accessCount and lastAccessed
\* included) and the set of resident entries are as before the call.
C29_HasIsPure ==
  [][\A key \in HasKeys :
       (last'.op = "has" /\ last'.key = key /\ Has(key))
         => /\ last'.ret = (/\ key \in DOMAIN items
                            /\ \/ items[key].expiresAt = Undef
                               \/ now <= items[key].expiresAt)
            /\ cacheStats' = cacheStats
            /\ items' = items
            /\ order' = order
            /\ tags' = tags]_vars

\* has has returned false for an entry whose expiry has passed; the entry
\* is still resident and no access was counted
C29_Witness ==
  /\ last.op = "has"
  /\ last.key \in DOMAIN items
  /\ items[last.key].expiresAt # Undef
  /\ now > items[last.key].expiresAt
  /\ last.ret = FALSE
  /\ cacheStats.totalAccesses = 0

(***************************************************************************)
(* SpecGetBook: a may carry a ttl and a tag, b carries the tag and may    *)
(* depend on a; in an unlimited store an entry leaves only when get finds *)
(* it, or an entry it depends on, expired.                                 *)
(***************************************************************************)
GetBookConfigs == {Config(0, "lru", 0, NoCompression, NoCircuitBreaker, FALSE)}

InitGetBook == InitWith(GetBookConfigs)

SetGetBook ==
  \/ \E ttl \in {Undef, 1}, tgs \in {{}, {"users"}} :
       SetOp("a", "small", Options(ttl, Undef, {}, tgs))
  \/ \E deps \in SUBSET {"a"} :
       SetOp("b", "small", Options(Undef, Undef, deps, {"users"}))

GetGetBook == \E key \in {"a", "b"} : GetWithin(key, MaxAccesses + 1)

NextGetBook ==
  \/ Tick
  \/ SetGetBook
  \/ GetGetBook

SpecGetBook == InitGetBook /\ [][NextGetBook]_vars

\* C30: get(key) on a resident entry whose expiry has passed removes the
\* entry, its registration under each of its tags and the entries listed in
\* its dependents, adds one to misses and
\* to totalAccesses, leaves hits unchanged and returns absent; get on a live
\* entry adds one to hits, totalAccesses and the entry's accessCount and
\* removes nothing.
C30_GetBookkeeping ==
  [][\A key \in {"a", "b"} :
       (/\ last'.op = "get"
        /\ last'.key = key
        /\ key \in DOMAIN items
        /\ GetWithin(key, MaxAccesses + 1))
         => IF items[key].expiresAt # Undef /\ now > items[key].expiresAt
            THEN /\ last'.ret = Undefined
                 /\ key \notin DOMAIN items'
                 /\ \A t \in items[key].tags : key \notin KeysByTag(tags', t)
                 /\ \A d \in items[key].dependents : d \notin DOMAIN items'
                 /\ cacheStats'.misses = cacheStats.misses + 1
                 /\ cacheStats'.totalAccesses = cacheStats.totalAccesses + 1
                 /\ cacheStats'.hits = cacheStats.hits
            ELSE /\ last'.ret = items[key].value
                 /\ DOMAIN items' = DOMAIN items
                 /\ items'[key].accessCount = items[key].accessCount + 1
                 /\ cacheStats'.hits = cacheStats.hits + 1
                 /\ cacheStats'.totalAccesses = cacheStats.totalAccesses + 1
                 /\ cacheStats'.misses = cacheStats.misses
                 /\ tags' = tags]_vars

\* one get was a hit and a later one a miss, and the store is empty: an
\* entry leaves this store only when get finds it expired
C30_Witness ==
  /\ pc = "idle"
  /\ last.op = "get"
  /\ last.ret = Undefined
  /\ cacheStats.hits = 1
  /\ cacheStats.misses = 1
  /\ DOMAIN items = {}

\* C31: under evictionPolicy 'manual' a set removes no entry and returns
\* normally, also when the resident count then exceeds maxItems.
C31_ManualSetReturns ==
  [][\A key \in Keys, ttl \in {Undef, 1} :
       (/\ config.evictionPolicy = "manual"
        /\ last'.op = "set"
        /\ last'.key = key
        /\ SetOp(key, "small", Options(ttl, Undef, {}, {})))
         => /\ DOMAIN items' = DOMAIN items \cup {key}
            /\ pc' = "idle"]_vars

\* the eviction loop of the set in progress removes something at some later
\* instant (every deadline of the model lies before MaxTime + 2)
LoopEnds ==
  \E t \in now..(MaxTime + 2) : ~EvictIfNeeded(Store, t, config).spinning

\* C36: set always returns: under every eviction policy and in every store
\* state, the eviction loop entered after the insert terminates.
C36_EvictionLoopTerminates == pc = "evictIfNeeded" => LoopEnds

\* C35: for every eviction policy and maxItems >= 1, when set(k, v) has
\* returned k is resident.
C35_SetKeepsWrittenKey ==
  (SetReturned /\ config.maxItems >= 1) => last.key \in DOMAIN items

(***************************************************************************)
(* SpecOverlap: overlapping getOrCompute and getOrComputeWithStale calls   *)
(* on one key, without a circuit breaker; the loaders return different     *)
(* values.                                                                 *)
(***************************************************************************)
OverlapValues == {"x22", "x200"}

OverlapConfigs == {Config(0, "lru", 0, NoCompression, NoCircuitBreaker, TRUE)}

InitOverlap == InitWith(OverlapConfigs)

SetOverlap == SetOp("a", "small", Options(1, 1, {}, {}))

GetOrComputeWithStaleOverlap == GetOrComputeWithStaleStart("a", NoOptions)

LoaderResolveOverlap ==
  \E c \in CallIds, v \in OverlapValues : LoaderResolve(c, v)

NextOverlap ==
  \/ Tick
  \/ SetOverlap
  \/ GetOrComputeAny
  \/ ExecuteAny
  \/ LoaderResolveOverlap
  \/ ReturnAny
  \/ LoaderRejectAny
  \/ GetOrComputeWithStaleOverlap
  \/ StaleLoaderResolveAny
  \/ StaleLoaderRejectAny
  \/ RefreshTimerAny
  \/ RefreshResolveAny
  \/ RefreshFinishAny
  \/ RefreshRejectAny

SpecOverlap == InitOverlap /\ [][NextOverlap]_vars

\* the getOrCompute calls whose loader is running
Loading(cs) ==
  {c \in CallIds : cs[c].op = "getOrCompute" /\ cs[c].phase = "loading"}

\* C32: there is no single-flight coalescing.  A getOrCompute call on an
\* absent key observes a miss and invokes its loader also while another
\* call's loader for that key is running; each resolved loader's value is
\* stored, so the stored value is that of the set completing last; a stale
\* read schedules a refresh of its own also while one is scheduled.
C32_NoSingleFlight ==
  [][/\ ("a" \notin DOMAIN items /\ GetOrComputeStart("a", NoOptions))
          => \E c \in CallIds : calls[c] = NoCall /\ calls'[c].phase = "got"
     /\ \A c \in CallIds :
          /\ (calls[c].phase = "got" /\ GetOrComputeExecute(c))
               => /\ loads' = loads + 1
                  /\ Loading(calls') = Loading(calls) \cup {c}
          /\ \A v \in OverlapValues :
               LoaderResolve(c, v)
                 => /\ "a" \in DOMAIN items'
                    /\ items'["a"].value = Raw(v)
     /\ (/\ "a" \in DOMAIN items
         /\ IsExpired(items["a"], now)
         /\ IsStale(items["a"], now)
         /\ GetOrComputeWithStaleStart("a", NoOptions))
          => Cardinality(Refreshes(calls')) = Cardinality(Refreshes(calls)) + 1]_vars

\* two overlapping getOrCompute calls on the key have both run their
\* loaders, which returned different values, and both have stored theirs
C32_Witness ==
  /\ loads = 2
  /\ \A c \in {1, 2} : /\ calls[c].op = "getOrCompute"
                       /\ calls[c].key = "a"
                       /\ calls[c].phase = "stored"
  /\ calls[1].value # calls[2].value
  /\ "a" \in DOMAIN items
  /\ items["a"].value \in {Raw(calls[1].value), Raw(calls[2].value)}

(***************************************************************************)
(* destroy(): stops the cleanup interval, calls clear() and removes the    *)
(* listeners.  The loaders and refresh timers in flight are not touched.   *)
(***************************************************************************)
\* a variant of destroy that cancels the work in flight
DestroyCancels ==
  /\ pc = "idle"
  /\ items' = EmptyMap
  /\ order' = << >>
  /\ linked' = {}
  /\ calls' = [c \in CallIds |-> NoCall]
  /\ last' = [op |-> "destroy", key |-> NoKey, arg |-> "", ret |-> Undefined]
  /\ UNCHANGED <<now, config, tags, groups, cacheStats, pc, cb, loads>>

Destroy ==
  /\ pc = "idle"
  /\ items' = EmptyMap
  /\ order' = << >>
  /\ linked' = {}
  /\ last' = [op |-> "destroy", key |-> NoKey, arg |-> "", ret |-> Undefined]
  /\ UNCHANGED <<now, config, tags, groups, cacheStats, pc, cb, calls, loads>>

(***************************************************************************)
(* SpecDestroy: the calls of SpecOverlap, with clear() and destroy().      *)
(***************************************************************************)
NextDestroy ==
  \/ NextOverlap
  \/ Clear
  \/ Destroy

SpecDestroy == InitOverlap /\ [][NextDestroy]_vars

Cleared == last.op \in {"clear", "destroy"}

\* C33: destroy() and clear() empty the store and cancel nothing: the
\* loaders and refreshes in flight stay in flight, and one that completes
\* after destroy() or clear() has returned writes its entry into the store.
C33_WriteAfterClear ==
  [][/\ (Clear \/ Destroy) => (calls' = calls /\ DOMAIN items' = {})
     /\ \A c \in CallIds, v \in OverlapValues \cup LoaderValues :
          (/\ Cleared
           /\ calls[c].phase = "loading"
           /\ \/ LoaderResolve(c, v)
              \/ StaleLoaderResolve(c, v)
              \/ RefreshResolve(c, v))
            => /\ calls[c].key \in DOMAIN items'
               /\ items'[calls[c].key].value = Raw(v)]_vars

\* destroy() was the last operation to return, and a loader or refresh that
\* was in flight has since written the entry
C33_Witness ==
  /\ last.op = "destroy"
  /\ "a" \in DOMAIN items

(***************************************************************************)
(* delete(key) as a run of calls.  DeleteCounted follows the recursion of  *)
(* delete -> invalidateDependents -> delete call by call: removed lists    *)
(* the keys in the order of their items.delete, fuel is what is left of    *)
(* MaxDeletes calls.  A run that uses up the fuel has not returned.        *)
(***************************************************************************)
MaxDeletes == 8

RECURSIVE DeleteCounted(_, _, _), DeleteEachCounted(_, _, _),
          DeleteCountedAlongDependsOn(_, _, _)

\* for (const dependent of new Set(item.dependents)) this.delete(dependent)
DeleteEachCounted(S, keys, r) ==
  IF keys = {} THEN [S |-> S, removed |-> r.removed, fuel |-> r.fuel]
  ELSE LET k == CHOOSE x \in keys : TRUE
           d == DeleteCounted(S, k, r)
       IN DeleteEachCounted(d.S, keys \ {k},
                            [removed |-> d.removed, fuel |-> d.fuel])

\* a variant of delete that cascades along dependsOn instead of dependents
DeleteCountedAlongDependsOn(S, key, r) ==
  IF r.fuel = 0 THEN [S |-> S, removed |-> r.removed, fuel |-> 0]
  ELSE IF key \notin DOMAIN S.items
  THEN [S |-> S, removed |-> r.removed, fuel |-> r.fuel - 1]
  ELSE LET item == S.items[key]
           S1 == RemoveDependencies(S, key, item.dependsOn)
           S2 == RemoveTags(S1, key, item.tags)
           e == DeleteEachCounted(S2, S2.items[key].dependsOn,
                                  [removed |-> r.removed, fuel |-> r.fuel - 1])
       IN IF e.fuel = 0 THEN e
          ELSE [S |-> MapDelete(e.S, key), removed |-> Append(e.removed, key),
                fuel |-> e.fuel]

DeleteCounted(S, key, r) ==
  IF r.fuel = 0 THEN [S |-> S, removed |-> r.removed, fuel |-> 0]
  ELSE IF key \notin DOMAIN S.items
  THEN [S |-> S, removed |-> r.removed, fuel |-> r.fuel - 1]
  ELSE LET item == S.items[key]
           S1 == RemoveDependencies(S, key, item.dependsOn)
           S2 == RemoveTags(S1, key, item.tags)
           e == DeleteEachCounted(S2, S2.items[key].dependents,
                                  [removed |-> r.removed, fuel |-> r.fuel - 1])
       IN IF e.fuel = 0 THEN e
          ELSE [S |-> MapDelete(e.S, key), removed |-> Append(e.removed, key),
                fuel |-> e.fuel]

DeleteRun(key) ==
  DeleteCounted(Store, key, [removed |-> << >>, fuel |-> MaxDeletes])

Returns(run) == run.fuel > 0

\* two resident keys that name each other in dependsOn
NameEachOther(A, B) ==
  /\ A # B
  /\ A \in DOMAIN items /\ B \in DOMAIN items
  /\ B \in items[A].dependsOn
  /\ A \in items[B].dependsOn

\* C34: when two keys depend on each other (A set with dependsOn [B] and B
\* set with dependsOn [A]), delete of either key does not return.
C34_CycleRecursesForever ==
  pc = "idle" =>
    \A A \in Keys, B \in Keys :
      NameEachOther(A, B) => ~Returns(DeleteRun(A))

\* C34 as amended: when two keys name each other in dependsOn, delete of
\* either key returns, having removed that key (and the other one when it
\* is registered as its dependent) once.
C34_CycleDeleteReturns ==
  pc = "idle" =>
    \A A \in Keys, B \in Keys :
      NameEachOther(A, B) =>
        LET run == DeleteRun(A) IN
          /\ Returns(run)
          /\ A \notin DOMAIN run.S.items
          /\ B \in items[A].dependents <=> B \notin DOMAIN run.S.items
          /\ \A i, j \in 1..Len(run.removed) :
               run.removed[i] = run.removed[j] => i = j

\* a and b name each other, b set last: only a lists the other as its
\* dependent
C34_Witness ==
  /\ pc = "idle"
  /\ NameEachOther("a", "b")
  /\ last.op = "set" /\ last.key = "b"
  /\ items["a"].dependents = {"b"}
  /\ items["b"].dependents = {}

(***************************************************************************)
(* C37.  The dependents relation among the resident entries.               *)
(***************************************************************************)
ResidentDependents(k) ==
  IF k \in DOMAIN items THEN items[k].dependents \cap DOMAIN items ELSE {}

RECURSIVE DependentsBelow(_)
\* the keys a cascade that starts at the keys of front can reach
DependentsBelow(front) ==
  LET next == front \cup UNION {ResidentDependents(k) : k \in front} IN
  IF next = front THEN front ELSE DependentsBelow(next)

Descendants(k) == DependentsBelow(ResidentDependents(k))

NoDuplicates(seq) ==
  \A i, j \in 1..Len(seq) : seq[i] = seq[j] => i = j

\* C37: in every reachable state the dependents relation among resident
\* entries has no cycle of length >= 2, and delete(k) returns for every k,
\* having removed each key at most once (namely k and its descendants).
C37_AcyclicDependents ==
  /\ \A k \in Keys, j \in Keys :
       (k # j /\ j \in Descendants(k)) => k \notin Descendants(j)
  /\ \A k \in Keys :
       LET run == DeleteRun(k) IN
         /\ Returns(run)
         /\ NoDuplicates(run.removed)
         /\ k \in DOMAIN items =>
              {run.removed[i] : i \in 1..Len(run.removed)}
                = {k} \cup Descendants(k)
         /\ run.S = Delete(Store, k)

\* delete("a") has returned from a cascade over the diamond a <- b, a <- c,
\* b <- c, in which c is reached twice
C37_Witness ==
  /\ last.op = "delete" /\ last.key = "a"
  /\ {<<"b", "a">>, <<"c", "a">>, <<"c", "b">>} \subseteq last.arg
  /\ DOMAIN items = {}

\* C38: with the breaker enabled and failureThreshold >= 1, in every state
\* (after every execute, overlapping ones included) a closed breaker has
\* failureCount < failureThreshold, and an open or half-open breaker has
\* failureCount >= failureThreshold and
\* nextAttemptTime = lastFailureTime + recoveryTimeout.
C38_BreakerStateInvariant ==
  (config.circuitBreaker.enabled /\ config.circuitBreaker.failureThreshold >= 1)
    => /\ cb.state \in {"closed", "open", "half-open"}
       /\ cb.state = "closed"
            => cb.failureCount < config.circuitBreaker.failureThreshold
       /\ cb.state \in {"open", "half-open"}
            => /\ cb.failureCount >= config.circuitBreaker.failureThreshold
               /\ cb.nextAttemptTime
                    = cb.lastFailureTime + config.circuitBreaker.recoveryTimeout

\* an operation admitted before the breaker opened has failed on the open
\* breaker at a later time: the count is above the threshold and the
\* deadline has moved with the last failure
C38_Witness ==
  /\ config.circuitBreaker.enabled
  /\ cb.state = "open"
  /\ cb.failureCount > config.circuitBreaker.failureThreshold
  /\ cb.lastFailureTime = MaxTime
  /\ cb.nextAttemptTime = MaxTime + config.circuitBreaker.recoveryTimeout
  /\ last.op = "getOrCompute"

\* C39: the breaker never moves from open directly to closed, also when
\* getOrCompute operations overlap.
C39_NoOpenToClosed ==
  [][(config.circuitBreaker.enabled /\ cb.state = "open")
       => cb'.state # "closed"]_vars

\* C40: a set that overwrites a resident key keeps the dependents registered
\* with it: every resident child that names the key in dependsOn and was in
\* its dependents set is still in it after the set (so that a later
\* delete of the key removes the child).
C40_OverwriteKeepsDependents ==
  [][\A key \in Keys, D2 \in DepSets :
       (/\ last'.op = "set"
        /\ last'.key = key
        /\ key \in DOMAIN items
        /\ SetOp(key, "small", Options(Undef, Undef, D2, {}))
        /\ key \in DOMAIN items')
         => \A child \in (items[key].dependents \cap DOMAIN items') \ {key} :
              key \in items[child].dependsOn
                => child \in items'[key].dependents]_vars

====
